---- MODULE Spec2Model ----
(***************************************************************************)
(* A model of the MQTT 3.1.1 client in src/src: the outbound queue         *)
(* (client.rs Outbox), the packet-identifier pool (packet_id_pool.rs),     *)
(* the session state machine (session.rs), the two keep-alive timers       *)
(* (keep_alive.rs and the private one of client.rs), the inbound reader    *)
(* (parser.rs) and the Client that ties them together (client.rs).         *)
(*                                                                         *)
(* Every component is a record and every method a pure operator that       *)
(* returns the result code together with the new record, so that an early  *)
(* return through `?` keeps exactly the mutations made before it.  Each    *)
(* component has a specification of its own (SpecOutbox, SpecPool,         *)
(* SpecSession, SpecKeepAlive, SpecClient, SpecTimers, SpecIncoming,       *)
(* SpecCodec, and SpecSilent with its fairness conditions) whose actions   *)
(* leave the other components unchanged.                                   *)
(***************************************************************************)
EXTENDS Integers, Sequences, FiniteSets, TLC

VARIABLES
    outbox,   \* client.rs Outbox: [buf, cursor, queue]
    wire,     \* history: byte strings encoded by enqueue / handed to write_all
    oret,     \* result of the last Outbox call
    pool,     \* packet_id_pool.rs PacketIdPool
    pret,     \* result of the last pool call
    sess,     \* session.rs Session (with its own pool and subscription table)
    sret,     \* result of the last Session call
    ka,       \* keep_alive.rs KeepAlive
    cka,      \* client.rs KeepAlive
    now,      \* the clock, in ticks
    kret,     \* result of the last keep-alive call
    cret,     \* result of the last Client call
    nenq,     \* packets the Client has put in its outbox so far
    codec,    \* the last call of an encoder or decoder: its input and results
    incoming, \* incoming.rs Publish: [cursor, pubs]
    iret      \* result of the last call on the incoming tracker

vars == <<outbox, wire, oret, pool, pret, sess, sret, ka, cka, now, kret, cret, nenq,
          codec, incoming, iret>>

(***************************************************************************)
(* Bounds of the model.                                                    *)
(***************************************************************************)
BufLen == 11       \* tx_buf.len(), the buffer handed to Outbox::new
QUEUE_SIZE == 3    \* const generic OUT_QUEUE_SIZE of the Outbox
MaxEnq == 4        \* successful enqueues recorded in one behaviour
N_PUB_OUT == 2     \* const generic N_PUB_OUT
N_SUB == 2         \* const generic N_SUB
U16Max == 2        \* u16::MAX, the identifier space, scaled down
MaxTime == 12      \* clock ticks in one behaviour
KeepAliveTicks == 4 \* the keep-alive interval D handed to try_new, in ticks
TxBufLen == 16     \* tx_buf.len() of the Client
RxBufLen == 4      \* rx_buf.len() of the Client
ClientMaxEnq == 3  \* packets a Client enqueues in one behaviour
N_PUB_IN == 3      \* const generic N_PUB_IN
MaxInId == 4       \* identifiers offered to the incoming tracker
LenWindow == 2     \* lengths tried on either side of a power of 128
MaxLenBytes == 5   \* bytes of a length field offered to the decoders
CodecBufLen == 32  \* bytes of the cursor a packet is encoded into

(***************************************************************************)
(* Bytes and slices.  Offsets are 0-based as in the source; sequences are  *)
(* 1-based.                                                                *)
(***************************************************************************)
Slice(buf, start, end) == SubSeq(buf, start + 1, end)

\* buf[at .. at+len) := bytes
WriteAt(buf, at, bytes) ==
    [i \in 1..Len(buf) |->
        IF i > at /\ i <= at + Len(bytes) THEN bytes[i - at] ELSE buf[i]]

\* <[u8]>::copy_within(range, dest): memmove semantics
copy_within(buf, range, dest) ==
    WriteAt(buf, dest, Slice(buf, range.start, range.end))

to_be_bytes(v) == <<(v \div 256) % 256, v % 256>>

(***************************************************************************)
(* Packet encoding (packet.rs, packet/encode.rs, packet/publish.rs).       *)
(***************************************************************************)
PacketTypeCode(t) ==
    CASE t = "Connect" -> 1 [] t = "ConnAck" -> 2 [] t = "Publish" -> 3
      [] t = "PubAck" -> 4 [] t = "PubRec" -> 5 [] t = "PubRel" -> 6
      [] t = "PubComp" -> 7 [] t = "Subscribe" -> 8 [] t = "SubAck" -> 9
      [] t = "Unsubscribe" -> 10 [] t = "UnsubAck" -> 11
      [] t = "PingReq" -> 12 [] t = "PingResp" -> 13 [] t = "Disconnect" -> 14

QoSCode(q) ==
    CASE q = "AtMostOnce" -> 0 [] q = "AtLeastOnce" -> 1 [] q = "ExactlyOnce" -> 2

\* encode::remaining_length: the bytes written and the result
RECURSIVE remaining_length_loop(_, _, _)
remaining_length_loop(len, i, out) ==
    LET rest == len \div 128
        byte == IF rest > 0 THEN (len % 128) + 128 ELSE len % 128
        out1 == Append(out, byte)
    IN  IF rest = 0 THEN [res |-> "Ok", bytes |-> out1]
        ELSE IF i + 1 = 4 THEN [res |-> "MalformedPacket", bytes |-> out1]
        ELSE remaining_length_loop(rest, i + 1, out1)

remaining_length(len) == remaining_length_loop(len, 0, <<>>)

\* calculate_remaining_length: the number of length bytes, counted without
\* writing them
RECURSIVE calculate_remaining_length_loop(_, _)
calculate_remaining_length_loop(len, i) ==
    LET rest == len \div 128
    IN  IF rest = 0 THEN [res |-> "Ok", val |-> i + 1]
        ELSE IF i + 1 = 4 THEN [res |-> "MalformedPacket", val |-> 0]
        ELSE calculate_remaining_length_loop(rest, i + 1)

\* A count that lets a fifth length byte through
calculate_remaining_lengthMutFiveBytes(len) ==
    IF len \div 128 = 0 THEN [res |-> "Ok", val |-> 1]
    ELSE LET r == calculate_remaining_length_loop(len \div 128, 0)
         IN  IF r.res = "Ok" THEN [res |-> "Ok", val |-> r.val + 1] ELSE r

calculate_remaining_length(len) == calculate_remaining_length_loop(len, 0)

\* Cursor::write_binary_chunk: 16-bit length, then the bytes
write_binary_chunk(bytes) == to_be_bytes(Len(bytes) % 65536) \o bytes

\* impl From<&Flags> for u8
PublishFlags(p) ==
    (IF p.dup THEN 8 ELSE 0) + 2 * QoSCode(p.qos) + (IF p.retain THEN 1 ELSE 0)

\* <&Publish as EncodePacket>::required_space
PublishRequiredSpace(p) ==
    (Len(p.topic) + 2) + (IF p.id # 0 THEN 2 ELSE 0) + (Len(p.payload) + 2)

\* <&Publish as EncodePacket>::encode_body
PublishEncodeBody(p) ==
    write_binary_chunk(p.topic)
        \o (IF p.id # 0 THEN to_be_bytes(p.id) ELSE <<>>)
        \o write_binary_chunk(p.payload)

\* packet::empty_body: the header byte carries the flag nibble 0b0010
empty_body(t) == <<PacketTypeCode(t) * 16 + 2, 0>>

\* packet::encode_packet for a PUBLISH
encode_packet_publish(p) ==
    LET rl == remaining_length(PublishRequiredSpace(p))
        head == <<PacketTypeCode("Publish") * 16 + PublishFlags(p)>> \o rl.bytes
    IN  IF rl.res # "Ok" THEN [res |-> rl.res, bytes |-> head]
        ELSE [res |-> "Ok", bytes |-> head \o PublishEncodeBody(p)]

\* <&Connect as EncodePacket>::required_space, without will, username and
\* password
ConnectRequiredSpace(p) == (4 + 2) + 1 + 1 + 2 + (Len(p.client_id) + 2)

\* <&Connect as EncodePacket>::encode_body: "MQTT", level 4, the connect
\* flags, the keep-alive and the client identifier
ConnectEncodeBody(p) ==
    write_binary_chunk(<<77, 81, 84, 84>>)
        \o <<4>>
        \o <<IF p.clean_session THEN 2 ELSE 0>>
        \o to_be_bytes(p.keep_alive)
        \o write_binary_chunk(p.client_id)

\* packet::encode_packet for a CONNECT: flags() is 0
encode_packet_connect(p) ==
    LET rl == remaining_length(ConnectRequiredSpace(p))
        head == <<PacketTypeCode("Connect") * 16>> \o rl.bytes
    IN  IF rl.res # "Ok" THEN [res |-> rl.res, bytes |-> head]
        ELSE [res |-> "Ok", bytes |-> head \o ConnectEncodeBody(p)]

\* packet::encode_packet for a SUBSCRIBE of one topic filter: flags() is
\* 0b0010, the body is the identifier, the filter and the QoS byte
encode_packet_subscribe(p) ==
    LET rl == remaining_length(2 + ((Len(p.topic) + 2) + 1))
        head == <<PacketTypeCode("Subscribe") * 16 + 2>> \o rl.bytes
    IN  IF rl.res # "Ok" THEN [res |-> rl.res, bytes |-> head]
        ELSE [res |-> "Ok",
              bytes |-> head \o to_be_bytes(p.id) \o write_binary_chunk(p.topic)
                             \o <<QoSCode(p.qos)>>]

\* packet::encode_packet for an UNSUBSCRIBE of one topic: flags() is 0b0010,
\* the body is the identifier and the topic
encode_packet_unsubscribe(p) ==
    LET rl == remaining_length(2 + (Len(p.topic) + 2))
        head == <<PacketTypeCode("Unsubscribe") * 16 + 2>> \o rl.bytes
    IN  IF rl.res # "Ok" THEN [res |-> rl.res, bytes |-> head]
        ELSE [res |-> "Ok",
              bytes |-> head \o to_be_bytes(p.id) \o write_binary_chunk(p.topic)]

\* Packet::encode into a cursor over `cap` bytes: Cursor::ensure_remaining
\* refuses the write that would pass the end of the slice.
PacketEncode(p, cap) ==
    LET r == CASE p.type = "Publish" -> encode_packet_publish(p)
               [] p.type = "Connect" -> encode_packet_connect(p)
               [] p.type = "Subscribe" -> encode_packet_subscribe(p)
               [] p.type = "Unsubscribe" -> encode_packet_unsubscribe(p)
               [] p.type \in {"PingReq", "PingResp", "Disconnect"} ->
                    [res |-> "Ok", bytes |-> empty_body(p.type)]
               [] OTHER -> [res |-> "EncodeNotImplemented", bytes |-> <<>>]
    IN  IF Len(r.bytes) > cap
        THEN [res |-> "UnexpectedEof", bytes |-> SubSeq(r.bytes, 1, cap)]
        ELSE r

\* Packet::required_space is todo!() in packet.rs; section 4.7 of the
\* specification: needed = fixed_header_size + remaining_length.
PacketRequiredSpace(p) ==
    LET body == CASE p.type = "Publish" -> PublishRequiredSpace(p)
                  [] p.type = "Connect" -> ConnectRequiredSpace(p)
                  [] p.type \in {"PubAck", "PubRec", "PubRel", "PubComp", "UnsubAck"} -> 2
                  [] OTHER -> 0
    IN  1 + Len(remaining_length(body).bytes) + body

(***************************************************************************)
(* Outbox (client.rs).                                                     *)
(***************************************************************************)
Outbox_new == [buf |-> [i \in 1..BufLen |-> 0], cursor |-> 0, queue |-> <<>>]

has_pending(o) == o.queue # <<>>

enqueue(o, packet) ==
    LET c0 == IF o.queue = <<>> THEN 0 ELSE o.cursor
        needed == PacketRequiredSpace(packet)
    IN  IF c0 + needed > Len(o.buf)
        THEN [res |-> "BufferTooSmall", o |-> [o EXCEPT !.cursor = c0], bytes |-> <<>>]
        ELSE
          LET start == c0
              end == start + needed
              enc == PacketEncode(packet, needed)
              buf1 == WriteAt(o.buf, start, enc.bytes)
          IN  IF enc.res # "Ok"
              THEN [res |-> enc.res,
                    o |-> [o EXCEPT !.cursor = c0, !.buf = buf1], bytes |-> <<>>]
              ELSE IF Len(o.queue) >= QUEUE_SIZE
              THEN [res |-> "VectorIsFull",
                    o |-> [o EXCEPT !.cursor = c0, !.buf = buf1], bytes |-> <<>>]
              ELSE [res |-> "Ok",
                    o |-> [buf |-> buf1, cursor |-> end,
                           queue |-> Append(o.queue, [start |-> start, end |-> end])],
                    bytes |-> enc.bytes]

\* The loop of Outbox::compact: the queue is iterated by shared reference,
\* its ranges are read and never written.
RECURSIVE compact_loop(_, _, _, _)
compact_loop(buf, queue, i, cursor) ==
    IF i > Len(queue) THEN [res |-> "Ok", buf |-> buf, cursor |-> cursor]
    ELSE
      LET range == queue[i]
      IN  IF range.start < cursor
          THEN [res |-> "QueueRangeError", buf |-> buf, cursor |-> cursor]
          ELSE compact_loop(
                 IF range.start - cursor > 0 THEN copy_within(buf, range, cursor) ELSE buf,
                 queue, i + 1, cursor + (range.end - range.start))

compact(o) ==
    LET r == compact_loop(o.buf, o.queue, 1, 0)
    IN  IF r.res = "Ok"
        THEN [res |-> "Ok", o |-> [o EXCEPT !.buf = r.buf, !.cursor = r.cursor]]
        ELSE [res |-> r.res, o |-> [o EXCEPT !.buf = r.buf]]

\* writeOk: whether transport.write_all succeeds.  `written` is what was
\* handed to write_all (nothing when the queue was empty).
flush_one(o, writeOk) ==
    IF o.queue # <<>>
    THEN LET range == Head(o.queue)
             o1 == [o EXCEPT !.queue = Tail(o.queue)]
             bytes == Slice(o.buf, range.start, range.end)
         IN  IF ~writeOk
             THEN [res |-> "TransportError", o |-> o1, written |-> <<bytes>>]
             ELSE LET c == compact(o1)
                  IN  [res |-> c.res, o |-> c.o, written |-> <<bytes>>]
    ELSE LET c == compact(o)
         IN  [res |-> c.res, o |-> c.o, written |-> <<>>]

\* The packets handed to the Outbox in SpecOutbox.
PublishA == [type |-> "Publish", dup |-> FALSE, qos |-> "AtMostOnce", retain |-> FALSE,
             topic |-> <<97>>, id |-> 0, payload |-> <<>>]
OutboxPackets ==
    {[type |-> "PingReq"], [type |-> "PingResp"], [type |-> "Disconnect"],
     [type |-> "PubAck", id |-> 1], PublishA}

(***************************************************************************)
(* Packet-identifier pool (packet_id_pool.rs).  A free publish slot is     *)
(* NoPub (Option::None); a free subscribe or unsubscribe slot holds 0.     *)
(***************************************************************************)
NoPub == [id |-> 0, state |-> "None"]

\* Iterator::position: the first index satisfying the test, 0 for None
PositionOf(seq, Test(_)) ==
    IF \E i \in 1..Len(seq) : Test(seq[i])
    THEN CHOOSE i \in 1..Len(seq) : Test(seq[i]) /\ \A j \in 1..(i - 1) : ~Test(seq[j])
    ELSE 0

PacketIdPool_new ==
    [in_flight_pub |-> [i \in 1..N_PUB_OUT |-> NoPub],
     in_flight_sub |-> [i \in 1..N_SUB |-> 0],
     in_flight_unsub |-> [i \in 1..N_SUB |-> 0],
     next_id |-> 1]

clear(p) == PacketIdPool_new

\* u16::wrapping_add
wrapping_add(a, b) == (a + b) % (U16Max + 1)

containsMutPubOnly(p, looking_for) ==
    \E i \in 1..Len(p.in_flight_pub) :
        p.in_flight_pub[i] # NoPub /\ p.in_flight_pub[i].id = looking_for

contains(p, looking_for) ==
    \/ \E i \in 1..Len(p.in_flight_pub) :
          p.in_flight_pub[i] # NoPub /\ p.in_flight_pub[i].id = looking_for
    \/ \E i \in 1..Len(p.in_flight_sub) : p.in_flight_sub[i] = looking_for
    \/ \E i \in 1..Len(p.in_flight_unsub) : p.in_flight_unsub[i] = looking_for

\* PacketIdPool::next_id: `for _ in 0..u16::MAX`, k iterations left
RECURSIVE next_id_loop(_, _)
next_id_loop(p, k) ==
    IF k = 0 THEN [res |-> "NoPacketIdAvailable", id |-> 0, p |-> p]
    ELSE
      LET id == p.next_id
          n1 == wrapping_add(p.next_id, 1)
          p1 == [p EXCEPT !.next_id = IF n1 = 0 THEN 1 ELSE n1]
      IN  IF contains(p1, id) THEN next_id_loop(p1, k - 1)
          ELSE [res |-> "Ok", id |-> id, p |-> p1]

next_idMutNoSkip(p) ==
    LET n1 == wrapping_add(p.next_id, 1)
    IN  [res |-> "Ok", id |-> p.next_id,
         p |-> [p EXCEPT !.next_id = IF n1 = 0 THEN 1 ELSE n1]]

next_id(p) == next_id_loop(p, U16Max)

next_pub_id(p, just_ack) ==
    LET index == PositionOf(p.in_flight_pub, LAMBDA e : e = NoPub)
    IN  IF index = 0 THEN [res |-> "NoPacketIdAvailable", id |-> 0, p |-> p]
        ELSE
          LET r == next_id(p)
              state == IF just_ack THEN "AwaitPubAck" ELSE "AwaitPubRec"
          IN  IF r.res # "Ok" THEN r
              ELSE [res |-> "Ok", id |-> r.id,
                    p |-> [r.p EXCEPT !.in_flight_pub[index] =
                                          [id |-> r.id, state |-> state]]]

\* PacketIdPool::array_mut: the field a Kind selects
array_mut(kind) == IF kind = "Sub" THEN "in_flight_sub" ELSE "in_flight_unsub"

next_for(p, kind) ==
    LET index == PositionOf(p[array_mut(kind)], LAMBDA id : id = 0)
    IN  IF index = 0 THEN [res |-> "NoPacketIdAvailable", id |-> 0, p |-> p]
        ELSE
          LET r == next_id(p)
          IN  IF r.res # "Ok" THEN r
              ELSE [res |-> "Ok", id |-> r.id,
                    p |-> [r.p EXCEPT ![array_mut(kind)][index] = r.id]]

next_sub_id(p) == next_for(p, "Sub")

next_unsub_id(p) == next_for(p, "Unsub")

set_pubrel(p, packet_id) ==
    LET index == PositionOf(p.in_flight_pub, LAMBDA e : e # NoPub /\ e.id = packet_id)
    IN  IF index = 0 THEN [res |-> "ProtocolViolation", p |-> p]
        ELSE IF p.in_flight_pub[index].state = "AwaitPubRec"
        THEN [res |-> "Ok", p |-> [p EXCEPT !.in_flight_pub[index].state = "AwaitPubComp"]]
        ELSE IF p.in_flight_pub[index].state = "AwaitPubComp"
        THEN [res |-> "Ok", p |-> p]
        ELSE [res |-> "ProtocolViolation", p |-> p]

release_pub_idMutAnyState(p, packet_id, just_ack) ==
    LET index == PositionOf(p.in_flight_pub, LAMBDA e : e # NoPub /\ e.id = packet_id)
    IN  IF index = 0 THEN [res |-> "ProtocolViolation", p |-> p]
        ELSE [res |-> "Ok", p |-> [p EXCEPT !.in_flight_pub[index] = NoPub]]

release_pub_id(p, packet_id, just_ack) ==
    LET index == PositionOf(p.in_flight_pub, LAMBDA e : e # NoPub /\ e.id = packet_id)
    IN  IF index = 0 THEN [res |-> "ProtocolViolation", p |-> p]
        ELSE
          LET state == p.in_flight_pub[index].state
          IN  IF \/ (just_ack /\ state = "AwaitPubAck")
                 \/ (~just_ack /\ state = "AwaitPubComp")
              THEN [res |-> "Ok", p |-> [p EXCEPT !.in_flight_pub[index] = NoPub]]
              ELSE [res |-> "ProtocolViolation", p |-> p]

\* A release that reports success for an identifier its store does not hold
release_forMutMissingOk(p, kind, packet_id) ==
    LET index == PositionOf(p[array_mut(kind)], LAMBDA id : id = packet_id)
    IN  IF index = 0 THEN [res |-> "Ok", p |-> p]
        ELSE [res |-> "Ok", p |-> [p EXCEPT ![array_mut(kind)][index] = 0]]

release_for(p, kind, packet_id) ==
    LET index == PositionOf(p[array_mut(kind)], LAMBDA id : id = packet_id)
    IN  IF index = 0 THEN [res |-> "ProtocolViolation", p |-> p]
        ELSE [res |-> "Ok", p |-> [p EXCEPT ![array_mut(kind)][index] = 0]]

release_sub_id(p, packet_id) == release_for(p, "Sub", packet_id)

release_unsub_id(p, packet_id) == release_for(p, "Unsub", packet_id)

\* The identifiers a pool holds, per store and in all
PubIds(p) == {p.in_flight_pub[i].id : i \in {j \in 1..Len(p.in_flight_pub) : p.in_flight_pub[j] # NoPub}}
SubIds(p) == {p.in_flight_sub[i] : i \in 1..Len(p.in_flight_sub)} \ {0}
UnsubIds(p) == {p.in_flight_unsub[i] : i \in 1..Len(p.in_flight_unsub)} \ {0}
HeldIds(p) == PubIds(p) \cup SubIds(p) \cup UnsubIds(p)

\* An identifier as it arrives from the wire: PacketId::try_from refuses 0
PacketIds == 1..U16Max

(***************************************************************************)
(* Session (session.rs).  The file carries a PacketIdPool of its own whose *)
(* publish methods take the QoS instead of just_ack; its other methods are *)
(* those of packet_id_pool.rs word for word.                               *)
(***************************************************************************)
QoSLevels == {"AtMostOnce", "AtLeastOnce", "ExactlyOnce"}

\* session.rs PacketIdPool::next_pub_id(qos): next_id runs before the QoS
\* is looked at.
sess_next_pub_id(p, qos) ==
    LET index == PositionOf(p.in_flight_pub, LAMBDA e : e = NoPub)
    IN  IF index = 0 THEN [res |-> "NoPacketIdAvailable", id |-> 0, p |-> p]
        ELSE
          LET r == next_id(p)
          IN  IF r.res # "Ok" THEN r
              ELSE IF qos = "AtMostOnce"
              THEN [res |-> "ProtocolViolation", id |-> 0, p |-> r.p]
              ELSE [res |-> "Ok", id |-> r.id,
                    p |-> [r.p EXCEPT !.in_flight_pub[index] =
                              [id |-> r.id,
                               state |-> IF qos = "AtLeastOnce" THEN "AwaitPubAck"
                                                                ELSE "AwaitPubRec"]]]

sess_release_pub_idMutAnyState(p, packet_id, qos) ==
    LET index == PositionOf(p.in_flight_pub, LAMBDA e : e # NoPub /\ e.id = packet_id)
    IN  IF index = 0 THEN [res |-> "ProtocolViolation", p |-> p]
        ELSE [res |-> "Ok", p |-> [p EXCEPT !.in_flight_pub[index] = NoPub]]

\* session.rs PacketIdPool::release_pub_id(packet_id, qos)
sess_release_pub_id(p, packet_id, qos) ==
    LET index == PositionOf(p.in_flight_pub, LAMBDA e : e # NoPub /\ e.id = packet_id)
    IN  IF index = 0 THEN [res |-> "ProtocolViolation", p |-> p]
        ELSE
          LET state == p.in_flight_pub[index].state
          IN  IF \/ (qos = "AtLeastOnce" /\ state = "AwaitPubAck")
                 \/ (qos = "ExactlyOnce" /\ state = "AwaitPubComp")
              THEN [res |-> "Ok", p |-> [p EXCEPT !.in_flight_pub[index] = NoPub]]
              ELSE [res |-> "ProtocolViolation", p |-> p]

\* Action values: what a handler hands back to the client
Nothing == [kind |-> "Nothing"]
NoAction == [kind |-> "None"]   \* the call returned Err, or Option::None
Event(name) == [kind |-> "Event", event |-> name]
Send(packet) == [kind |-> "Send", packet |-> packet]

\* SubState
New == [t |-> "New", id |-> 0]
Pending(id) == [t |-> "Pending", id |-> id]
Active == [t |-> "Active", id |-> 0]
UnsubPending(id) == [t |-> "UnsubPending", id |-> id]

\* Subscription::new; unsub_packet_id is the field unsubscribe and
\* on_unsuback use (0 for None)
Subscription_new(topic, qos) ==
    [topic |-> topic, qos |-> qos, state |-> New, unsub_packet_id |-> 0]

Session_new ==
    [state |-> "Disconnected", session_present |-> FALSE, ping_outstanding |-> FALSE,
     pool |-> PacketIdPool_new, subscriptions |-> <<>>]

ensure_stateMutAlwaysOk(s, state) == "Ok"

ensure_state(s, state) == IF s.state # state THEN "ProtocolViolation" ELSE "Ok"

Err(s, res) == [res |-> res, s |-> s, action |-> NoAction]

\* Session::connect is todo!() in session.rs; section 4.6: legal in
\* Disconnected; -> Connecting; clear pool, clear subs if clean_session;
\* emit CONNECT.
connect(s, clean_session) ==
    IF ensure_state(s, "Disconnected") # "Ok" THEN Err(s, "ProtocolViolation")
    ELSE [res |-> "Ok",
          s |-> [s EXCEPT !.state = "Connecting", !.pool = clear(s.pool),
                          !.subscriptions = IF clean_session THEN <<>> ELSE @],
          action |-> Send([type |-> "Connect", clean_session |-> clean_session])]

\* Session::publish is todo!() in session.rs; section 4.6: legal in
\* Connected; QoS 0: emit PUBLISH; QoS 1/2: allocate id, record in-flight,
\* emit PUBLISH.
publish(s, qos, topic) ==
    IF ensure_state(s, "Connected") # "Ok" THEN Err(s, "ProtocolViolation")
    ELSE IF qos = "AtMostOnce"
    THEN [res |-> "Ok", s |-> s,
          action |-> Send([type |-> "Publish", qos |-> qos, topic |-> topic, id |-> 0])]
    ELSE
      LET r == sess_next_pub_id(s.pool, qos)
      IN  IF r.res # "Ok" THEN Err([s EXCEPT !.pool = r.p], r.res)
          ELSE [res |-> "Ok", s |-> [s EXCEPT !.pool = r.p],
                action |-> Send([type |-> "Publish", qos |-> qos, topic |-> topic,
                                 id |-> r.id])]

\* Session::subscribe: no state is checked, the record is pushed as it came
\* (state New) and no existing record is looked for.
subscribe(s, sub) ==
    LET r == next_sub_id(s.pool)
    IN  IF r.res # "Ok" THEN Err([s EXCEPT !.pool = r.p], r.res)
        ELSE IF Len(s.subscriptions) >= N_SUB
        THEN Err([s EXCEPT !.pool = r.p], "SubVectorIsFull")
        ELSE [res |-> "Ok",
              s |-> [s EXCEPT !.pool = r.p, !.subscriptions = Append(@, sub)],
              action |-> Send([type |-> "Subscribe", id |-> r.id,
                               topic |-> sub.topic, qos |-> sub.qos])]

\* Session::unsubscribe: the first record with the topic, whatever its state
unsubscribe(s, unsub_topic) ==
    LET index == PositionOf(s.subscriptions, LAMBDA sub : sub.topic = unsub_topic)
    IN  IF index = 0 THEN Err(s, "WrongTopicToUnsubscribe")
        ELSE
          LET r == next_unsub_id(s.pool)
          IN  IF r.res # "Ok" THEN Err([s EXCEPT !.pool = r.p], r.res)
              ELSE [res |-> "Ok",
                    s |-> [s EXCEPT !.pool = r.p,
                                    !.subscriptions[index].unsub_packet_id = r.id],
                    action |-> Send([type |-> "Unsubscribe", id |-> r.id])]

\* The teardown of section 4.6 (disconnect and on_disconnect)
TearDown(s) ==
    [s EXCEPT !.state = "Disconnected", !.pool = clear(s.pool),
              !.subscriptions = IF ~s.session_present THEN <<>> ELSE @]

\* Session::disconnect is todo!() in session.rs; section 4.6: any connected
\* state -> Disconnected; clear pool; if not session_present clear subs;
\* emit DISCONNECT.  client.rs:71 takes an Option: nothing to send when
\* there is no connection.
disconnect(s) ==
    IF s.state = "Disconnected" THEN [res |-> "Ok", s |-> s, action |-> NoAction]
    ELSE [res |-> "Ok", s |-> TearDown(s), action |-> Send([type |-> "Disconnect"])]

\* Session::on_disconnect is called by client.rs:138 and not defined in
\* session.rs; section 4.6: if not Disconnected, tear down as in disconnect
\* but emit the event Disconnected.
on_disconnect(s) ==
    IF s.state = "Disconnected" THEN [res |-> "Ok", s |-> s, action |-> Nothing]
    ELSE [res |-> "Ok", s |-> TearDown(s), action |-> Event("Disconnected")]

\* Session::ping: ping_outstanding is read and nothing follows from it
ping(s) ==
    [res |-> "Ok", s |-> [s EXCEPT !.ping_outstanding = TRUE],
     action |-> Send([type |-> "PingReq"])]

\* Session::on_connack: the return code of the packet is not read
on_connack(s, packet) ==
    IF ensure_state(s, "Connecting") # "Ok" THEN Err(s, "ProtocolViolation")
    ELSE [res |-> "Ok",
          s |-> [s EXCEPT !.state = "Connected",
                          !.session_present = packet.session_present,
                          !.pool = clear(s.pool),
                          !.subscriptions = IF ~packet.session_present THEN <<>> ELSE @],
          action |-> Event("Connected")]

on_publishMutAnySub(s, packet) ==
    IF ensure_state(s, "Connected") # "Ok" THEN Err(s, "ProtocolViolation")
    ELSE IF packet.dup /\ packet.qos = "AtMostOnce" THEN Err(s, "ProtocolViolation")
    ELSE IF ~\E i \in 1..Len(s.subscriptions) : s.subscriptions[i].topic = packet.topic
    THEN Err(s, "Unsubscribed")
    ELSE IF packet.qos = "AtMostOnce"
    THEN [res |-> "Ok", s |-> s, action |-> Event("Received")]
    ELSE IF packet.qos = "AtLeastOnce"
    THEN [res |-> "Ok", s |-> s, action |-> Send([type |-> "PubAck", id |-> packet.id])]
    ELSE [res |-> "Ok", s |-> s, action |-> Send([type |-> "PubRec", id |-> packet.id])]

\* Session::on_publish.  Its first statement, self.publish(State::Connected)?,
\* is read as the state check every other handler starts with.
on_publish(s, packet) ==
    IF ensure_state(s, "Connected") # "Ok" THEN Err(s, "ProtocolViolation")
    ELSE IF packet.dup /\ packet.qos = "AtMostOnce" THEN Err(s, "ProtocolViolation")
    ELSE IF ~\E i \in 1..Len(s.subscriptions) :
                /\ s.subscriptions[i].state = Active
                /\ s.subscriptions[i].topic = packet.topic
    THEN Err(s, "Unsubscribed")
    ELSE IF packet.qos = "AtMostOnce"
    THEN [res |-> "Ok", s |-> s, action |-> Event("Received")]
    ELSE IF packet.id = 0 THEN Err(s, "ProtocolViolation")
    ELSE IF packet.qos = "AtLeastOnce"
    THEN [res |-> "Ok", s |-> s, action |-> Send([type |-> "PubAck", id |-> packet.id])]
    ELSE [res |-> "Ok", s |-> s, action |-> Send([type |-> "PubRec", id |-> packet.id])]

\* Session::on_puback.  release_pub_id is called with the identifier alone;
\* the QoS of a PUBACK is AtLeastOnce.
on_puback(s, packet_id) ==
    IF ensure_state(s, "Connected") # "Ok" THEN Err(s, "ProtocolViolation")
    ELSE
      LET r == sess_release_pub_id(s.pool, packet_id, "AtLeastOnce")
      IN  IF r.res # "Ok" THEN Err([s EXCEPT !.pool = r.p], r.res)
          ELSE [res |-> "Ok", s |-> [s EXCEPT !.pool = r.p],
                action |-> Event("Published")]

on_pubrec(s, packet_id) ==
    IF ensure_state(s, "Connected") # "Ok" THEN Err(s, "ProtocolViolation")
    ELSE [res |-> "Ok", s |-> s, action |-> Event("Published")]

on_pubrel(s, packet_id) ==
    IF ensure_state(s, "Connected") # "Ok" THEN Err(s, "ProtocolViolation")
    ELSE [res |-> "Ok", s |-> s, action |-> Event("Published")]

on_pubcomp(s, packet_id) ==
    IF ensure_state(s, "Connected") # "Ok" THEN Err(s, "ProtocolViolation")
    ELSE [res |-> "Ok", s |-> s, action |-> Event("Published")]

\* Session::on_suback.  debugBuild: whether debug_assert_eq! is compiled in.
on_suback(s, packet, debugBuild) ==
    IF ensure_state(s, "Connected") # "Ok" THEN Err(s, "ProtocolViolation")
    ELSE
      LET r == release_sub_id(s.pool, packet.packet_id)
          s1 == [s EXCEPT !.pool = r.p]
          matching == {i \in 1..Len(s.subscriptions) :
                          s.subscriptions[i].state = Pending(packet.packet_id)}
          index == PositionOf(s.subscriptions,
                              LAMBDA sub : sub.state = Pending(packet.packet_id))
          code == packet.return_codes[1]
      IN  IF r.res # "Ok" THEN Err(s1, r.res)
          ELSE IF packet.return_codes = <<>> THEN Err(s1, "ProtocolViolation")
          ELSE IF Len(packet.return_codes) > 1 THEN Err(s1, "UnsupportedIncomingPacket")
          ELSE IF debugBuild /\ Cardinality(matching) # 1 THEN Err(s1, "Panic")
          ELSE IF index = 0 THEN Err(s1, "ProtocolViolation")
          ELSE IF code = "Failure"
          THEN [res |-> "Ok", s |-> [s1 EXCEPT !.subscriptions[index].state = New],
                action |-> Event("SubscribeFailed")]
          ELSE [res |-> "Ok",
                s |-> [s1 EXCEPT !.subscriptions[index].state = Active,
                                 !.subscriptions[index].qos =
                                     CASE code = "SuccessMaxQoS0" -> "AtMostOnce"
                                       [] code = "SuccessMaxQoS1" -> "AtLeastOnce"
                                       [] code = "SuccessMaxQoS2" -> "ExactlyOnce"],
                action |-> Event("Subscribed")]

\* Vec::retain
Retain(seq, Keep(_)) ==
    LET F[i \in 0..Len(seq)] ==
            IF i = 0 THEN <<>>
            ELSE IF Keep(seq[i]) THEN Append(F[i - 1], seq[i]) ELSE F[i - 1]
    IN  F[Len(seq)]

on_unsuback(s, packet_id) ==
    IF ensure_state(s, "Connected") # "Ok" THEN Err(s, "ProtocolViolation")
    ELSE
      LET r == release_unsub_id(s.pool, packet_id)
      IN  IF r.res # "Ok" THEN Err([s EXCEPT !.pool = r.p], r.res)
          ELSE [res |-> "Ok",
                s |-> [s EXCEPT !.pool = r.p,
                                !.subscriptions =
                                    Retain(@, LAMBDA sub : sub.unsub_packet_id # packet_id)],
                action |-> Event("Unsubscribed")]

on_pingreq(s) == [res |-> "Ok", s |-> s, action |-> Send([type |-> "PingResp"])]

on_pingresp(s) ==
    [res |-> "Ok", s |-> [s EXCEPT !.ping_outstanding = FALSE], action |-> Nothing]

(***************************************************************************)
(* Keep-alive.  A duration::Generic is an integer and a scaling factor     *)
(* (a fraction of a second per unit); two of them compare by the time they *)
(* stand for.                                                              *)
(***************************************************************************)
ScalingFactor == [num |-> 1, den |-> 1000000]   \* Clock::SCALING_FACTOR

Generic_new(integer, sf) == [integer |-> integer, sf |-> sf]

\* a >= b for two duration::Generic
DurationGe(a, b) ==
    a.integer * a.sf.num * b.sf.den >= b.integer * b.sf.num * a.sf.den

\* Fraction / Fraction::from_integer(2) and Fraction * Fraction::from_integer(2)
FractionDiv2(f) == [num |-> f.num, den |-> f.den * 2]
FractionMul2(f) == [num |-> f.num * 2, den |-> f.den]

\* Instant::checked_duration_since, as KeepAlive::elapsed uses it
elapsed(k, t) ==
    IF t < k.last_activity THEN [res |-> "TimeError", d |-> Generic_new(0, ScalingFactor)]
    ELSE [res |-> "Ok", d |-> Generic_new(t - k.last_activity, ScalingFactor)]

\* keep_alive.rs KeepAlive::try_new
KeepAlive_try_new(t, keep_alive) ==
    LET enabled == keep_alive.integer # 0
    IN  [keep_alive |-> keep_alive,
         half_keep_alive |->
             IF enabled THEN Generic_new(keep_alive.integer, FractionDiv2(keep_alive.sf))
             ELSE keep_alive,
         last_activity |-> t,
         ping_outstanding |-> FALSE,
         enabled |-> enabled]

on_send(k, t) == [k EXCEPT !.last_activity = t]

on_receive(k, t) == [k EXCEPT !.last_activity = t, !.ping_outstanding = FALSE]

should_ping(k, t) ==
    IF ~k.enabled \/ k.ping_outstanding THEN [res |-> "Ok", val |-> FALSE, k |-> k]
    ELSE IF elapsed(k, t).res # "Ok" THEN [res |-> "TimeError", val |-> FALSE, k |-> k]
    ELSE IF DurationGe(elapsed(k, t).d, k.half_keep_alive)
    THEN [res |-> "Ok", val |-> TRUE, k |-> [k EXCEPT !.ping_outstanding = TRUE]]
    ELSE [res |-> "Ok", val |-> FALSE, k |-> k]

\* A timed_out that never reports a timeout
timed_outMutNever(k, t) == [res |-> "Ok", val |-> FALSE]

timed_out(k, t) ==
    IF ~k.enabled \/ ~k.ping_outstanding THEN [res |-> "Ok", val |-> FALSE]
    ELSE IF elapsed(k, t).res # "Ok" THEN [res |-> "TimeError", val |-> FALSE]
    ELSE [res |-> "Ok", val |-> DurationGe(elapsed(k, t).d, k.keep_alive)]

\* client.rs KeepAlive::try_new: the scaling factor is multiplied by 2
client_KeepAlive_try_new(t, keep_alive) ==
    [keep_alive |-> keep_alive,
     half_keep_alive |-> Generic_new(keep_alive.integer, FractionMul2(keep_alive.sf)),
     last_activity |-> t]

client_update(k, t) == [k EXCEPT !.last_activity = t]

client_should_ping(k, t) ==
    IF elapsed(k, t).res # "Ok" THEN [res |-> "TimeError", val |-> FALSE, k |-> k]
    ELSE [res |-> "Ok", val |-> DurationGe(elapsed(k, t).d, k.half_keep_alive), k |-> k]

client_timed_out(k, t) ==
    IF elapsed(k, t).res # "Ok" THEN [res |-> "TimeError", val |-> FALSE]
    ELSE [res |-> "Ok", val |-> DurationGe(elapsed(k, t).d, k.keep_alive)]

(***************************************************************************)
(* The inbound reader (parser.rs).  `inp` is what the transport delivers   *)
(* before it reports end of stream, `pos` the number of bytes consumed;    *)
(* read_exact past the end is a TransportError.  `idx` is the index of the *)
(* bump provider over the receive buffer (buffer.rs).                      *)
(***************************************************************************)
NoPacket == [type |-> "None"]

read_u8(inp, pos) ==
    IF pos + 1 > Len(inp) THEN [res |-> "TransportError", val |-> 0, pos |-> Len(inp)]
    ELSE [res |-> "Ok", val |-> inp[pos + 1], pos |-> pos + 1]

read_u16(inp, pos) ==
    IF pos + 2 > Len(inp) THEN [res |-> "TransportError", val |-> 0, pos |-> Len(inp)]
    ELSE [res |-> "Ok", val |-> inp[pos + 1] * 256 + inp[pos + 2], pos |-> pos + 2]

\* <Bump as Provider>::provide
provide(idx, len) ==
    IF idx + len > RxBufLen THEN [res |-> "UnexpectedEof", idx |-> idx]
    ELSE [res |-> "Ok", idx |-> idx + len]

\* read_exact into a slice of `len` bytes
read_exact(inp, pos, len) ==
    IF pos + len > Len(inp) THEN [res |-> "TransportError", val |-> <<>>, pos |-> Len(inp)]
    ELSE [res |-> "Ok", val |-> SubSeq(inp, pos + 1, pos + len), pos |-> pos + len]

read_binary(inp, pos, idx) ==
    LET len == read_u16(inp, pos)
        buf == provide(idx, len.val)
        data == read_exact(inp, len.pos, len.val)
    IN  IF len.res # "Ok"
        THEN [res |-> len.res, val |-> <<>>, pos |-> len.pos, idx |-> idx]
        ELSE IF buf.res # "Ok"
        THEN [res |-> "BufferTooSmall", val |-> <<>>, pos |-> len.pos, idx |-> idx]
        ELSE [res |-> data.res, val |-> data.val, pos |-> data.pos, idx |-> buf.idx]

\* TryFrom<u8> for PacketType is todo!() in protocol.rs; the discriminants
\* of the enum are 1..14, every other value is InvalidPacketType.
PacketType_try_from(value) ==
    IF value \in 1..14
    THEN [res |-> "Ok",
          val |-> CHOOSE t \in {"Connect", "ConnAck", "Publish", "PubAck", "PubRec",
                                "PubRel", "PubComp", "Subscribe", "SubAck",
                                "Unsubscribe", "UnsubAck", "PingReq", "PingResp",
                                "Disconnect"} : PacketTypeCode(t) = value]
    ELSE [res |-> "InvalidPacketType", val |-> "None"]

\* PacketType::validate_flags
validate_flags(packet_type, flags) ==
    CASE packet_type = "Publish" -> TRUE
      [] packet_type \in {"PubRel", "Subscribe", "Unsubscribe"} -> flags = 4
      [] OTHER -> flags = 0

parse_first_byte(byte) ==
    LET packet_type == PacketType_try_from(byte \div 16)
        flags == byte % 16
    IN  IF packet_type.res # "Ok"
        THEN [res |-> packet_type.res, packet_type |-> "None", flags |-> flags]
        ELSE IF ~validate_flags(packet_type.val, flags)
        THEN [res |-> "InvalidFlags", packet_type |-> "None", flags |-> flags]
        ELSE [res |-> "Ok", packet_type |-> packet_type.val, flags |-> flags]

RECURSIVE read_remaining_len_loop(_, _, _, _, _)
read_remaining_len_loop(inp, pos, bytes_read, remaining_len, multiplier) ==
    LET byte == read_u8(inp, pos)
        len == remaining_len + (byte.val % 128) * multiplier
    IN  IF byte.res # "Ok" THEN [res |-> byte.res, val |-> 0, pos |-> byte.pos]
        ELSE IF byte.val < 128 THEN [res |-> "Ok", val |-> len, pos |-> byte.pos]
        ELSE IF bytes_read + 1 >= 4
        THEN [res |-> "MalformedRemainingLength", val |-> 0, pos |-> byte.pos]
        ELSE read_remaining_len_loop(inp, byte.pos, bytes_read + 1, len, multiplier * 128)

read_remaining_len(inp, pos) == read_remaining_len_loop(inp, pos, 0, 0, 1)

read_fixed_header(inp) ==
    LET byte == read_u8(inp, 0)
        first == parse_first_byte(byte.val)
        remaining_len == read_remaining_len(inp, byte.pos)
        none == [flags |-> 0, packet_type |-> "None", remaining_len |-> 0]
    IN  IF byte.res # "Ok" THEN [res |-> byte.res, header |-> none, pos |-> byte.pos]
        ELSE IF first.res # "Ok" THEN [res |-> first.res, header |-> none, pos |-> byte.pos]
        ELSE IF remaining_len.res # "Ok"
        THEN [res |-> remaining_len.res, header |-> none, pos |-> remaining_len.pos]
        ELSE [res |-> "Ok",
              header |-> [flags |-> first.flags, packet_type |-> first.packet_type,
                          remaining_len |-> remaining_len.val],
              pos |-> remaining_len.pos]

\* TryFrom<u8> for ConnectReturnCode
ConnectReturnCode_try_from(value) ==
    CASE value = 0 -> [res |-> "Ok", val |-> "Accepted"]
      [] value = 1 -> [res |-> "Ok", val |-> "UnacceptableProtocolVersion"]
      [] value = 2 -> [res |-> "Ok", val |-> "IdentifierRejected"]
      [] value = 3 -> [res |-> "Ok", val |-> "ServerUnavailable"]
      [] value = 4 -> [res |-> "Ok", val |-> "BadUserNameOrPassword"]
      [] value = 5 -> [res |-> "Ok", val |-> "NotAuthorized"]
      [] OTHER -> [res |-> "InvalidConnectReturnCode", val |-> "None"]

\* TryFrom<u16> for PacketId
PacketId_try_from(id) == IF id = 0 THEN "MalformedPacket" ELSE "Ok"

\* TryFrom<u8> for QoS
QoS_try_from(value) ==
    CASE value = 0 -> [res |-> "Ok", val |-> "AtMostOnce"]
      [] value = 1 -> [res |-> "Ok", val |-> "AtLeastOnce"]
      [] value = 2 -> [res |-> "Ok", val |-> "ExactlyOnce"]
      [] OTHER -> [res |-> "InvalidQoS", val |-> "None"]

\* TryFrom<u8> for publish::Flags
Flags_try_from(value) ==
    LET dup == (value \div 8) % 2 # 0
        qos == QoS_try_from((value \div 2) % 4)
        retain == value % 2 # 0
        none == [dup |-> FALSE, qos |-> "None", retain |-> FALSE]
    IN  IF qos.res # "Ok" THEN [res |-> qos.res, flags |-> none]
        ELSE IF qos.val = "AtMostOnce" /\ dup THEN [res |-> "MalformedPacket", flags |-> none]
        ELSE [res |-> "Ok", flags |-> [dup |-> dup, qos |-> qos.val, retain |-> retain]]

\* TryFrom<u8> for SubAckReturnCode
SubAckReturnCode_try_from(value) ==
    CASE value = 0 -> [res |-> "Ok", val |-> "SuccessMaxQoS0"]
      [] value = 1 -> [res |-> "Ok", val |-> "SuccessMaxQoS1"]
      [] value = 2 -> [res |-> "Ok", val |-> "SuccessMaxQoS2"]
      [] value = 128 -> [res |-> "Ok", val |-> "Failure"]
      [] OTHER -> [res |-> "MalformedPacket", val |-> "None"]

\* The topics of the model as the session compares them (&str) and as they
\* travel (their UTF-8 bytes); any other byte string is the topic "?".
as_bytes(topic) == IF topic = "a" THEN <<97>> ELSE IF topic = "b" THEN <<98>> ELSE <<63>>
String_from(bytes) ==
    IF bytes = <<97>> THEN "a" ELSE IF bytes = <<98>> THEN "b" ELSE "?"

PErr(res) == [res |-> res, packet |-> NoPacket]

read_connack(inp, pos, header) ==
    LET flags == read_u8(inp, pos)
        session_present == flags.val % 2 # 0
        byte == read_u8(inp, flags.pos)
        return_code == ConnectReturnCode_try_from(byte.val)
    IN  IF header.remaining_len # 2 THEN PErr("MalformedRemainingLength")
        ELSE IF flags.res # "Ok" THEN PErr(flags.res)
        ELSE IF flags.val \div 2 # 0 THEN PErr("MalformedPacket")
        ELSE IF byte.res # "Ok" THEN PErr(byte.res)
        ELSE IF return_code.res # "Ok" THEN PErr(return_code.res)
        ELSE IF return_code.val # "Accepted" /\ session_present THEN PErr("MalformedPacket")
        ELSE [res |-> "Ok",
              packet |-> [type |-> "ConnAck", return_code |-> return_code.val,
                          session_present |-> session_present]]

read_publish(inp, pos, header) ==
    LET flags == Flags_try_from(header.flags)
        buf == read_binary(inp, pos, 0)
        has_id == flags.flags.qos # "AtMostOnce"
        id == read_u16(inp, buf.pos)
        pos1 == IF has_id THEN id.pos ELSE buf.pos
        read_bytes == (Len(buf.val) + 2) + (IF has_id THEN 2 ELSE 0)
        len == header.remaining_len - read_bytes
        payload_buf == provide(buf.idx, len)
        payload == read_exact(inp, pos1, len)
    IN  IF flags.res # "Ok" THEN PErr(flags.res)
        ELSE IF buf.res # "Ok" THEN PErr(buf.res)
        ELSE IF has_id /\ id.res # "Ok" THEN PErr(id.res)
        ELSE IF has_id /\ PacketId_try_from(id.val) # "Ok"
        THEN PErr(PacketId_try_from(id.val))
        ELSE IF len < 0 THEN PErr("MalformedRemainingLength")
        ELSE IF payload_buf.res # "Ok" THEN PErr("BufferTooSmall")
        ELSE IF payload.res # "Ok" THEN PErr(payload.res)
        ELSE [res |-> "Ok",
              packet |-> [type |-> "Publish", dup |-> flags.flags.dup,
                          qos |-> flags.flags.qos, retain |-> flags.flags.retain,
                          topic |-> String_from(buf.val),
                          id |-> IF has_id THEN id.val ELSE 0,
                          payload |-> payload.val]]

read_only_packet_id(inp, pos, header) ==
    LET id == read_u16(inp, pos)
    IN  IF header.remaining_len # 2 THEN [res |-> "MalformedRemainingLength", id |-> 0]
        ELSE IF id.res # "Ok" THEN [res |-> id.res, id |-> 0]
        ELSE [res |-> PacketId_try_from(id.val), id |-> id.val]

\* the loop of read_suback: return_codes is a Vec of capacity 1
RECURSIVE read_suback_loop(_, _, _, _)
read_suback_loop(inp, pos, remaining, return_codes) ==
    LET byte == read_u8(inp, pos)
        code == SubAckReturnCode_try_from(byte.val)
    IN  IF remaining <= 0 THEN [res |-> "Ok", return_codes |-> return_codes]
        ELSE IF byte.res # "Ok" THEN [res |-> byte.res, return_codes |-> return_codes]
        ELSE IF code.res # "Ok" THEN [res |-> code.res, return_codes |-> return_codes]
        ELSE IF Len(return_codes) >= 1
        THEN [res |-> "VectorIsFull", return_codes |-> return_codes]
        ELSE read_suback_loop(inp, byte.pos, remaining - 1, Append(return_codes, code.val))

read_suback(inp, pos, header) ==
    LET id == read_u16(inp, pos)
        codes == read_suback_loop(inp, id.pos, header.remaining_len - 2, <<>>)
    IN  IF header.remaining_len <= 2 THEN PErr("MalformedRemainingLength")
        ELSE IF id.res # "Ok" THEN PErr(id.res)
        ELSE IF PacketId_try_from(id.val) # "Ok" THEN PErr(PacketId_try_from(id.val))
        ELSE IF codes.res # "Ok" THEN PErr(codes.res)
        ELSE [res |-> "Ok",
              packet |-> [type |-> "SubAck", packet_id |-> id.val,
                          return_codes |-> codes.return_codes]]

expect_empty(header) ==
    IF header.remaining_len # 0 THEN "MalformedRemainingLength" ELSE "Ok"

\* read_packet_body, but a type it does not read is handed on as a packet
read_packet_bodyMutAcceptsAll(inp, pos, header) ==
    LET only_id(type) ==
            LET r == read_only_packet_id(inp, pos, header)
            IN  IF r.res # "Ok" THEN PErr(r.res)
                ELSE [res |-> "Ok", packet |-> [type |-> type, id |-> r.id]]
        empty(type) ==
            IF expect_empty(header) # "Ok" THEN PErr(expect_empty(header))
            ELSE [res |-> "Ok", packet |-> [type |-> type]]
    IN  CASE header.packet_type = "ConnAck" -> read_connack(inp, pos, header)
          [] header.packet_type = "Publish" -> read_publish(inp, pos, header)
          [] header.packet_type \in {"PubAck", "PubRec", "PubRel", "PubComp", "UnsubAck"} ->
                only_id(header.packet_type)
          [] header.packet_type = "SubAck" -> read_suback(inp, pos, header)
          [] header.packet_type \in {"PingReq", "PingResp"} -> empty(header.packet_type)
          [] OTHER -> [res |-> "Ok", packet |-> [type |-> header.packet_type]]

read_packet_body(inp, pos, header) ==
    LET only_id(type) ==
            LET r == read_only_packet_id(inp, pos, header)
            IN  IF r.res # "Ok" THEN PErr(r.res)
                ELSE [res |-> "Ok", packet |-> [type |-> type, id |-> r.id]]
        empty(type) ==
            IF expect_empty(header) # "Ok" THEN PErr(expect_empty(header))
            ELSE [res |-> "Ok", packet |-> [type |-> type]]
    IN  CASE header.packet_type = "ConnAck" -> read_connack(inp, pos, header)
          [] header.packet_type = "Publish" -> read_publish(inp, pos, header)
          [] header.packet_type \in {"PubAck", "PubRec", "PubRel", "PubComp", "UnsubAck"} ->
                only_id(header.packet_type)
          [] header.packet_type = "SubAck" -> read_suback(inp, pos, header)
          [] header.packet_type \in {"PingReq", "PingResp"} -> empty(header.packet_type)
          [] OTHER -> PErr("UnsupportedIncomingPacket")

read_packet(inp) ==
    LET header == read_fixed_header(inp)
    IN  IF header.res # "Ok" THEN PErr(header.res)
        ELSE read_packet_body(inp, header.pos, header.header)

(***************************************************************************)
(* Client (client.rs).  A client is the record of its session, its         *)
(* keep-alive and its outbox.  parser::StreamParser is not part of the     *)
(* sources: Client::poll_io reads one packet with parser::read_packet.     *)
(***************************************************************************)
\* Client::try_new at time t
Client_try_new(t, keep_alive) ==
    [session |-> Session_new,
     keep_alive |-> client_KeepAlive_try_new(t, keep_alive),
     outbox |-> [buf |-> [i \in 1..TxBufLen |-> 0], cursor |-> 0, queue |-> <<>>]]

\* The packet of an action as Packet::encode takes it: From<Options> for
\* Connect and Session::publish are todo!(), a CONNECT carries an empty
\* client identifier and keep-alive 0, a PUBLISH an empty payload.
PacketOf(packet) ==
    CASE packet.type = "Connect" ->
            [type |-> "Connect", clean_session |-> packet.clean_session,
             keep_alive |-> 0, client_id |-> <<>>]
      [] packet.type = "Publish" ->
            [type |-> "Publish", dup |-> FALSE, qos |-> packet.qos, retain |-> FALSE,
             topic |-> as_bytes(packet.topic), id |-> packet.id, payload |-> <<>>]
      [] OTHER -> packet

\* `?` on a session call followed by Outbox::enqueue of the packet
enqueue_action(c, r) ==
    IF r.res # "Ok" THEN [res |-> r.res, c |-> [c EXCEPT !.session = r.s]]
    ELSE IF r.action.kind # "Send" THEN [res |-> "Ok", c |-> [c EXCEPT !.session = r.s]]
    ELSE LET e == enqueue(c.outbox, PacketOf(r.action.packet))
         IN  [res |-> e.res, c |-> [c EXCEPT !.session = r.s, !.outbox = e.o]]

schedule_connect(c, clean_session) == enqueue_action(c, connect(c.session, clean_session))

schedule_disconnect(c) == enqueue_action(c, disconnect(c.session))

schedule_ping(c) == enqueue_action(c, ping(c.session))

schedule_publish(c, qos, topic) == enqueue_action(c, publish(c.session, qos, topic))

\* apply_action
apply_action(tx, action) ==
    CASE action.kind = "Send" ->
            LET e == enqueue(tx, PacketOf(action.packet))
            IN  [res |-> e.res, tx |-> e.o, event |-> "None"]
      [] action.kind = "Event" -> [res |-> "Ok", tx |-> tx, event |-> action.event]
      [] OTHER -> [res |-> "Ok", tx |-> tx, event |-> "None"]

\* The match of Client::poll_io on the packet read: the handler called and
\* its result.
dispatch(s, packet, debugBuild) ==
    CASE packet.type = "ConnAck" -> [handler |-> "on_connack", r |-> on_connack(s, packet)]
      [] packet.type = "Publish" -> [handler |-> "on_publish", r |-> on_publish(s, packet)]
      [] packet.type = "PubAck" -> [handler |-> "on_puback", r |-> on_puback(s, packet.id)]
      [] packet.type = "PubRec" -> [handler |-> "on_pubrec", r |-> on_pubrec(s, packet.id)]
      [] packet.type = "PubRel" -> [handler |-> "on_pubrel", r |-> on_pubrel(s, packet.id)]
      [] packet.type = "PubComp" -> [handler |-> "on_pubcomp", r |-> on_pubcomp(s, packet.id)]
      [] packet.type = "SubAck" ->
            [handler |-> "on_suback", r |-> on_suback(s, packet, debugBuild)]
      [] packet.type = "UnsubAck" ->
            [handler |-> "on_unsuback", r |-> on_unsuback(s, packet.id)]
      [] packet.type = "PingReq" -> [handler |-> "on_pingreq", r |-> on_pingreq(s)]
      [] packet.type = "PingResp" -> [handler |-> "on_pingresp", r |-> on_pingresp(s)]
      [] packet.type = "Disconnect" ->
            [handler |-> "on_disconnect", r |-> on_disconnect(s)]
      [] OTHER -> [handler |-> "none", r |-> [res |-> "Ok", s |-> s, action |-> Nothing]]

\* The result of a poll_io: what it returned, the client it left, the byte
\* strings handed to write_all, the number of packets read from the
\* transport, the packet read and the handler it was given to.
PollResult(res, c, event, reads, inbound, handler) ==
    [res |-> res, c |-> c, event |-> event, written |-> <<>>, reads |-> reads,
     inbound |-> inbound, handler |-> handler]

\* poll_io from apply_action on: `d` is the handler called and its result
poll_io_apply(c, packet, d, a) ==
    PollResult(a.res, [c EXCEPT !.session = d.r.s, !.outbox = a.tx], a.event, 1,
               packet, d.handler)

\* poll_io from the match on: `?` on the handler, then apply_action
poll_io_dispatch(c, packet, d) ==
    IF d.r.res # "Ok"
    THEN PollResult(d.r.res, [c EXCEPT !.session = d.r.s], "None", 1, packet, d.handler)
    ELSE poll_io_apply(c, packet, d, apply_action(c.outbox, d.r.action))

\* poll_io from the read on: `?` on the packet read, keep_alive.update,
\* then the match.  `written` is what the call has handed to write_all.
poll_io_read(c, t, read, debugBuild) ==
    IF read.res # "Ok" THEN PollResult(read.res, c, "None", 1, NoPacket, "none")
    ELSE poll_io_dispatch([c EXCEPT !.keep_alive = client_update(@, t)], read.packet,
                          dispatch(c.session, read.packet, debugBuild))

\* poll_io when the outbox has pending packets: `?` on flush_one,
\* keep_alive.update, return Ok(None)
poll_io_flush(c, t, f) ==
    IF f.res # "Ok"
    THEN [PollResult(f.res, [c EXCEPT !.outbox = f.o], "None", 0, NoPacket, "none")
             EXCEPT !.written = f.written]
    ELSE [PollResult("Ok", [c EXCEPT !.outbox = f.o, !.keep_alive = client_update(@, t)],
                     "None", 0, NoPacket, "none")
             EXCEPT !.written = f.written]

\* poll_io without the early return after the flush: it goes on to read
poll_ioMutFlushAndRead(c, t, clockOk, writeOk, inp, debugBuild) ==
    IF ~clockOk THEN PollResult("TimeError", c, "None", 0, NoPacket, "none")
    ELSE IF has_pending(c.outbox)
    THEN LET f == poll_io_flush(c, t, flush_one(c.outbox, writeOk))
         IN  IF f.res # "Ok" THEN f
             ELSE [poll_io_read(f.c, t, read_packet(inp), debugBuild)
                      EXCEPT !.written = f.written]
    ELSE poll_io_read(c, t, read_packet(inp), debugBuild)

\* Client::poll_io.  clockOk: whether Clock::try_now succeeds; writeOk:
\* whether write_all succeeds; inp: what the transport has to read.
poll_io(c, t, clockOk, writeOk, inp, debugBuild) ==
    IF ~clockOk THEN PollResult("TimeError", c, "None", 0, NoPacket, "none")
    ELSE IF has_pending(c.outbox)
    THEN poll_io_flush(c, t, flush_one(c.outbox, writeOk))
    ELSE poll_io_read(c, t, read_packet(inp), debugBuild)

\* The end of poll_timers: to is what timed_out returned
poll_timers_disconnect(c, to) ==
    IF to.res # "Ok" THEN [res |-> to.res, c |-> c]
    ELSE IF to.val THEN schedule_disconnect(c)
    ELSE [res |-> "Ok", c |-> c]

\* The second half of poll_timers: r is what scheduling the ping returned
poll_timers_timeout(r, t) ==
    IF r.res # "Ok" THEN r
    ELSE poll_timers_disconnect(r.c, client_timed_out(r.c.keep_alive, t))

\* The first half of poll_timers: sp is what should_ping returned
poll_timers_ping(c, t, sp) ==
    IF sp.res # "Ok" THEN [res |-> sp.res, c |-> c]
    ELSE poll_timers_timeout(IF sp.val
                             THEN schedule_ping([c EXCEPT !.keep_alive = sp.k])
                             ELSE [res |-> "Ok", c |-> [c EXCEPT !.keep_alive = sp.k]],
                             t)

\* A poll_timers that never looks at the timeout
poll_timersMutNoTimeout(c, t, clockOk) ==
    IF ~clockOk THEN [res |-> "TimeError", c |-> c]
    ELSE LET sp == client_should_ping(c.keep_alive, t)
         IN  IF sp.res = "Ok" /\ sp.val
             THEN schedule_ping([c EXCEPT !.keep_alive = sp.k])
             ELSE [res |-> sp.res, c |-> c]

\* Client::poll_timers: t is what clock.try_now() returns when clockOk
poll_timers(c, t, clockOk) ==
    IF ~clockOk THEN [res |-> "TimeError", c |-> c]
    ELSE poll_timers_ping(c, t, client_should_ping(c.keep_alive, t))

\* The second half of poll: timers is what poll_timers returned
poll_then_io(timers, t, writeOk, inp, debugBuild) ==
    IF timers.res # "Ok"
    THEN PollResult(timers.res, timers.c, "None", 0, NoPacket, "none")
    ELSE poll_io(timers.c, t, TRUE, writeOk, inp, debugBuild)

\* Client::poll: poll_timers, then poll_io; both read the clock, which
\* answers both or neither
poll(c, t, clockOk, writeOk, inp, debugBuild) ==
    poll_then_io(poll_timers(c, t, clockOk), t, writeOk, inp, debugBuild)

\* The encoded packets waiting in the outbox, oldest first
Queued(o) ==
    [i \in 1..Len(o.queue) |-> SubSeq(o.buf, o.queue[i].start + 1, o.queue[i].end)]

(***************************************************************************)
(* Packet::decode (packet.rs) and the decoders of the packet types.  The   *)
(* cursor is the body and a 0-based position in it.  The decoders that     *)
(* take a buffer provider are given one with room for what they ask.       *)
(***************************************************************************)
Cursor_read_u8(body, pos) ==
    IF pos + 1 > Len(body) THEN [res |-> "UnexpectedEof", val |-> 0, pos |-> pos]
    ELSE [res |-> "Ok", val |-> body[pos + 1], pos |-> pos + 1]

Cursor_read_u16(body, pos) ==
    IF pos + 2 > Len(body) THEN [res |-> "UnexpectedEof", val |-> 0, pos |-> pos]
    ELSE [res |-> "Ok", val |-> body[pos + 1] * 256 + body[pos + 2], pos |-> pos + 2]

Cursor_read_bytes(body, pos, n) ==
    IF pos + n > Len(body) THEN [res |-> "UnexpectedEof", val |-> <<>>, pos |-> pos]
    ELSE [res |-> "Ok", val |-> SubSeq(body, pos + 1, pos + n), pos |-> pos + n]

\* read_binary and read_utf8: a 16-bit length, then that many bytes
Cursor_read_binary(body, pos) ==
    LET len == Cursor_read_u16(body, pos)
    IN  IF len.res # "Ok" THEN [res |-> len.res, val |-> <<>>, pos |-> len.pos]
        ELSE Cursor_read_bytes(body, len.pos, len.val)

\* `flags & mask` for a mask of one bit
BitAnd(flags, mask) == ((flags \div mask) % 2) * mask

\* Connect::decode.  The flag tests compare the masked byte with 1.
Connect_decode(body) ==
    LET protocol_name == Cursor_read_binary(body, 0)
        level == Cursor_read_u8(body, protocol_name.pos)
        flags == Cursor_read_u8(body, level.pos)
        clean_session == BitAnd(flags.val, 2) = 1
        will_flag == BitAnd(flags.val, 4) = 1
        qos == QoS_try_from((flags.val \div 8) % 4)
        retain == BitAnd(flags.val, 32) = 1
        password_flag == BitAnd(flags.val, 64) = 1
        username_flag == BitAnd(flags.val, 128) = 1
        keep_alive == Cursor_read_u16(body, flags.pos)
        client_id == Cursor_read_binary(body, keep_alive.pos)
        will_topic == Cursor_read_binary(body, client_id.pos)
        will_payload == Cursor_read_binary(body, will_topic.pos)
        pos1 == IF will_flag THEN will_payload.pos ELSE client_id.pos
        username == Cursor_read_binary(body, pos1)
        pos2 == IF username_flag THEN username.pos ELSE pos1
        password == Cursor_read_binary(body, pos2)
    IN  IF protocol_name.res # "Ok" THEN PErr(protocol_name.res)
        ELSE IF protocol_name.val # <<77, 81, 84, 84>> THEN PErr("MalformedPacket")
        ELSE IF level.res # "Ok" THEN PErr(level.res)
        ELSE IF level.val # 4 THEN PErr("MalformedPacket")
        ELSE IF flags.res # "Ok" THEN PErr(flags.res)
        ELSE IF BitAnd(flags.val, 1) # 0 THEN PErr("MalformedPacket")
        ELSE IF qos.res # "Ok" THEN PErr(qos.res)
        ELSE IF keep_alive.res # "Ok" THEN PErr(keep_alive.res)
        ELSE IF client_id.res # "Ok" THEN PErr(client_id.res)
        ELSE IF will_flag /\ will_topic.res # "Ok" THEN PErr(will_topic.res)
        ELSE IF will_flag /\ will_payload.res # "Ok" THEN PErr(will_payload.res)
        ELSE IF username_flag /\ username.res # "Ok" THEN PErr(username.res)
        ELSE IF password_flag /\ password.res # "Ok" THEN PErr(password.res)
        ELSE [res |-> "Ok",
              packet |-> [type |-> "Connect", clean_session |-> clean_session,
                          keep_alive |-> keep_alive.val, client_id |-> client_id.val,
                          will |-> IF will_flag
                                   THEN [topic |-> will_topic.val,
                                         payload |-> will_payload.val,
                                         qos |-> qos.val, retain |-> retain]
                                   ELSE NoPacket,
                          username |-> IF username_flag THEN username.val ELSE <<>>,
                          has_username |-> username_flag,
                          password |-> IF password_flag THEN password.val ELSE <<>>,
                          has_password |-> password_flag]]

\* ConnAck::decode
ConnAck_decode(body) ==
    LET flags == Cursor_read_u8(body, 0)
        byte == Cursor_read_u8(body, flags.pos)
        return_code == ConnectReturnCode_try_from(byte.val)
    IN  IF flags.res # "Ok" THEN PErr(flags.res)
        ELSE IF flags.val \div 2 # 0 THEN PErr("MalformedPacket")
        ELSE IF byte.res # "Ok" THEN PErr(byte.res)
        ELSE IF return_code.res # "Ok" THEN PErr(return_code.res)
        ELSE IF byte.pos # Len(body) THEN PErr("MalformedPacket")
        ELSE [res |-> "Ok",
              packet |-> [type |-> "ConnAck", return_code |-> return_code.val,
                          session_present |-> flags.val % 2 = 1]]

\* Publish::decode: the payload is what is left of the body after the topic
\* and the identifier
Publish_decode(body, flags) ==
    LET f == Flags_try_from(flags)
        topic == Cursor_read_binary(body, 0)
        has_id == f.flags.qos # "AtMostOnce"
        id == Cursor_read_u16(body, topic.pos)
        pos1 == IF has_id THEN id.pos ELSE topic.pos
        payload == Cursor_read_bytes(body, pos1, Len(body) - pos1)
    IN  IF f.res # "Ok" THEN PErr(f.res)
        ELSE IF topic.res # "Ok" THEN PErr(topic.res)
        ELSE IF has_id /\ id.res # "Ok" THEN PErr(id.res)
        ELSE IF has_id /\ PacketId_try_from(id.val) # "Ok"
        THEN PErr(PacketId_try_from(id.val))
        ELSE IF payload.res # "Ok" THEN PErr(payload.res)
        ELSE [res |-> "Ok",
              packet |-> [type |-> "Publish", dup |-> f.flags.dup, qos |-> f.flags.qos,
                          retain |-> f.flags.retain, topic |-> topic.val,
                          id |-> IF has_id THEN id.val ELSE 0,
                          payload |-> payload.val]]

\* packet::only_packet_id
only_packet_id(type, body) ==
    LET id == Cursor_read_u16(body, 0)
    IN  IF id.res # "Ok" THEN PErr(id.res)
        ELSE IF PacketId_try_from(id.val) # "Ok" THEN PErr(PacketId_try_from(id.val))
        ELSE IF id.pos # Len(body) THEN PErr("MalformedPacket")
        ELSE [res |-> "Ok", packet |-> [type |-> type, id |-> id.val]]

\* The loop of Subscribe::decode (withQoS) and of Unsubscribe::decode: the
\* topics up to the end of the body, in a Vec of capacity 1
RECURSIVE decode_topics(_, _, _, _)
decode_topics(body, pos, withQoS, topics) ==
    LET topic == Cursor_read_binary(body, pos)
        byte == Cursor_read_u8(body, topic.pos)
        qos == QoS_try_from(byte.val)
        entry == IF withQoS THEN [topic |-> topic.val, qos |-> qos.val]
                 ELSE [topic |-> topic.val]
    IN  IF pos >= Len(body) THEN [res |-> "Ok", topics |-> topics]
        ELSE IF topic.res # "Ok" THEN [res |-> topic.res, topics |-> topics]
        ELSE IF withQoS /\ byte.res # "Ok" THEN [res |-> byte.res, topics |-> topics]
        ELSE IF withQoS /\ qos.res # "Ok" THEN [res |-> qos.res, topics |-> topics]
        ELSE IF Len(topics) >= 1 THEN [res |-> "VectorIsFull", topics |-> topics]
        ELSE decode_topics(body, IF withQoS THEN byte.pos ELSE topic.pos, withQoS,
                           Append(topics, entry))

\* Subscribe::decode and Unsubscribe::decode
Subscribe_decode(type, body) ==
    LET id == Cursor_read_u16(body, 0)
        topics == decode_topics(body, id.pos, type = "Subscribe", <<>>)
    IN  IF id.res # "Ok" THEN PErr(id.res)
        ELSE IF PacketId_try_from(id.val) # "Ok" THEN PErr(PacketId_try_from(id.val))
        ELSE IF topics.res # "Ok" THEN PErr(topics.res)
        ELSE IF topics.topics = <<>> THEN PErr("MalformedPacket")
        ELSE [res |-> "Ok",
              packet |-> [type |-> type, id |-> id.val, topics |-> topics.topics]]

\* SubAck::decode: the return codes up to the end of the body, in a Vec of
\* capacity 1
RECURSIVE SubAck_decode_loop(_, _, _)
SubAck_decode_loop(body, pos, return_codes) ==
    LET byte == Cursor_read_u8(body, pos)
        code == SubAckReturnCode_try_from(byte.val)
    IN  IF pos >= Len(body) THEN [res |-> "Ok", return_codes |-> return_codes]
        ELSE IF code.res # "Ok" THEN [res |-> code.res, return_codes |-> return_codes]
        ELSE IF Len(return_codes) >= 1
        THEN [res |-> "VectorIsFull", return_codes |-> return_codes]
        ELSE SubAck_decode_loop(body, byte.pos, Append(return_codes, code.val))

SubAck_decode(body) ==
    LET id == Cursor_read_u16(body, 0)
        codes == SubAck_decode_loop(body, id.pos, <<>>)
    IN  IF id.res # "Ok" THEN PErr(id.res)
        ELSE IF PacketId_try_from(id.val) # "Ok" THEN PErr(PacketId_try_from(id.val))
        ELSE IF codes.res # "Ok" THEN PErr(codes.res)
        ELSE IF codes.return_codes = <<>> THEN PErr("MalformedPacket")
        ELSE [res |-> "Ok",
              packet |-> [type |-> "SubAck", packet_id |-> id.val,
                          return_codes |-> codes.return_codes]]

\* Packet::decode
Packet_decode(header, body) ==
    LET t == header.packet_type
    IN  IF header.remaining_len # Len(body) THEN PErr("MalformedPacket")
        ELSE CASE t = "Connect" -> Connect_decode(body)
               [] t = "ConnAck" -> ConnAck_decode(body)
               [] t = "Publish" -> Publish_decode(body, header.flags)
               [] t \in {"PubAck", "PubRec", "PubRel", "PubComp", "UnsubAck"} ->
                    only_packet_id(t, body)
               [] t \in {"Subscribe", "Unsubscribe"} -> Subscribe_decode(t, body)
               [] t = "SubAck" -> SubAck_decode(body)
               [] t \in {"PingReq", "PingResp", "Disconnect"} ->
                    IF body # <<>> THEN PErr("MalformedPacket")
                    ELSE [res |-> "Ok", packet |-> [type |-> t]]

(***************************************************************************)
(* The byte-at-a-time header decoder of protocol.rs.  Its state is the     *)
(* State::RemainingLen variant; multiplier and value are u32.              *)
(***************************************************************************)
RemainingLen_start == [multiplier |-> 1, value |-> 0, byte_read |-> 0]

\* parse_remaining_len_byte.  header is the remaining_len of Some(header),
\* or -1 for None.  On a fifth byte `*multiplier *= 128` leaves the range of
\* u32 (128^5): a build with overflow checks panics there, another one wraps
\* and goes on to the test of bytes_read; value and multiplier are not read
\* after that error and are left as they were.
parse_remaining_len_byte(state, byte, debugBuild) ==
    LET digit == byte % 128
    IN  IF state.multiplier >= 2^25
        THEN IF debugBuild
             THEN [res |-> "Panic", header |-> -1, state |-> state]
             ELSE [res |-> "MalformedRemainingLength", header |-> -1,
                   state |-> [state EXCEPT !.byte_read = @ + 1]]
        ELSE
          LET s1 == [multiplier |-> state.multiplier * 128,
                     value |-> state.value + digit * state.multiplier,
                     byte_read |-> state.byte_read + 1]
          IN  IF s1.byte_read > 4
              THEN [res |-> "MalformedRemainingLength", header |-> -1, state |-> s1]
              ELSE IF byte >= 128 THEN [res |-> "Ok", header |-> -1, state |-> s1]
              ELSE [res |-> "Ok", header |-> s1.value, state |-> s1]

\* The bytes of inp from offset pos fed to parse_remaining_len_byte one by
\* one until it returns a header or an error; NeedMore when it has returned
\* Ok(None) for the last byte there is
RECURSIVE parse_remaining_len(_, _, _, _)
parse_remaining_len(state, inp, pos, debugBuild) ==
    IF pos + 1 > Len(inp) THEN [res |-> "NeedMore", val |-> 0, pos |-> pos]
    ELSE LET r == parse_remaining_len_byte(state, inp[pos + 1], debugBuild)
         IN  IF r.res # "Ok" THEN [res |-> r.res, val |-> 0, pos |-> pos + 1]
             ELSE IF r.header # -1 THEN [res |-> "Ok", val |-> r.header, pos |-> pos + 1]
             ELSE parse_remaining_len(r.state, inp, pos + 1, debugBuild)

(***************************************************************************)
(* Incoming QoS 2 publishes (incoming.rs).  pubs is the heapless Vec of    *)
(* capacity N_PUB_IN, cursor the 0-based slot the next eviction looks at.  *)
(***************************************************************************)
Publish_new == [cursor |-> 0, pubs |-> <<>>]

shift_cursor(t) ==
    [t EXCEPT !.cursor = IF t.cursor + 1 >= N_PUB_IN THEN 0 ELSE t.cursor + 1]

\* An eviction that takes the slot under the cursor whatever its state
track_loopMutEvictAny(t, entry, k) ==
    IF k = 0 THEN [res |-> "VectorIsFull", t |-> t]
    ELSE [res |-> "Ok", t |-> shift_cursor([t EXCEPT !.pubs[t.cursor + 1] = entry])]

\* The eviction loop of track: at most k more slots are looked at
RECURSIVE track_loop(_, _, _)
track_loop(t, entry, k) ==
    IF k = 0 THEN [res |-> "VectorIsFull", t |-> t]
    ELSE IF t.pubs[t.cursor + 1].state = "Done"
    THEN [res |-> "Ok", t |-> shift_cursor([t EXCEPT !.pubs[t.cursor + 1] = entry])]
    ELSE track_loop(shift_cursor(t), entry, k - 1)

\* A track that does not look for the identifier before taking a slot
trackMutNoLookup(t, packet_id) ==
    LET entry == [id |-> packet_id, state |-> "AwaitPubRel"]
    IN  IF Len(t.pubs) < N_PUB_IN
        THEN [res |-> "Ok", t |-> [t EXCEPT !.pubs = Append(t.pubs, entry)]]
        ELSE track_loop(t, entry, Len(t.pubs))

track(t, packet_id) ==
    LET entry == [id |-> packet_id, state |-> "AwaitPubRel"]
    IN  IF \E i \in 1..Len(t.pubs) : t.pubs[i].id = packet_id
        THEN [res |-> "Ok", t |-> t]
        ELSE IF Len(t.pubs) < N_PUB_IN
        THEN [res |-> "Ok", t |-> [t EXCEPT !.pubs = Append(t.pubs, entry)]]
        ELSE track_loop(t, entry, Len(t.pubs))

\* A mark_complete that sends a Done slot back to AwaitPubRel
mark_completeMutReopen(t, packet_id) ==
    IF ~\E i \in 1..Len(t.pubs) : t.pubs[i].id = packet_id
    THEN [res |-> "ProtocolViolation", t |-> t]
    ELSE LET i == CHOOSE j \in 1..Len(t.pubs) : t.pubs[j].id = packet_id
         IN  [res |-> "Ok",
              t |-> [t EXCEPT !.pubs[i].state =
                         IF @ = "AwaitPubRel" THEN "Done" ELSE "AwaitPubRel"]]

mark_complete(t, packet_id) ==
    IF ~\E i \in 1..Len(t.pubs) : t.pubs[i].id = packet_id
    THEN [res |-> "ProtocolViolation", t |-> t]
    ELSE LET i == CHOOSE j \in 1..Len(t.pubs) :
                      /\ t.pubs[j].id = packet_id
                      /\ \A k \in 1..(j - 1) : t.pubs[k].id # packet_id
         IN  [res |-> "Ok",
              t |-> IF t.pubs[i].state = "AwaitPubRel"
                    THEN [t EXCEPT !.pubs[i].state = "Done"]
                    ELSE t]

\* The identifiers the tracker is offered
InIds == 1..MaxInId

(***************************************************************************)
(* Initial state: every component as its constructor leaves it, the two    *)
(* keep-alives built at time 0 with an interval of d ticks.                *)
(***************************************************************************)
NoRet == [op |-> "none", res |-> "Ok"]
NoCodec == [op |-> "none"]
NoClientRet == [op |-> "none", res |-> "Ok", event |-> "None", inbound |-> "None",
                handler |-> "none"]

InitWith(d) ==
    /\ outbox = Outbox_new
    /\ wire = [enq |-> <<>>, sent |-> <<>>]
    /\ oret = NoRet
    /\ pool = PacketIdPool_new
    /\ pret = [op |-> "none", res |-> "Ok", id |-> 0]
    /\ sess = Session_new
    /\ sret = [op |-> "none", res |-> "Ok", action |-> NoAction]
    /\ now = 0
    /\ ka = KeepAlive_try_new(0, Generic_new(d, ScalingFactor))
    /\ cka = client_KeepAlive_try_new(0, Generic_new(d, ScalingFactor))
    /\ kret = [op |-> "none", res |-> "Ok", val |-> FALSE]
    /\ cret = NoClientRet
    /\ nenq = 0
    /\ codec = NoCodec
    /\ incoming = Publish_new
    /\ iret = NoRet

Init == InitWith(KeepAliveTicks)

outboxVars == <<outbox, wire, oret>>
poolVars == <<pool, pret>>
sessVars == <<sess, sret>>
kaVars == <<ka, cka, now, kret>>
clientVars == <<cret, nenq>>
codecVars == <<codec>>
incomingVars == <<incoming, iret>>

(***************************************************************************)
(* SpecOutbox: any interleaving of enqueue and flush_one.                  *)
(***************************************************************************)
Enqueue ==
    \E packet \in OutboxPackets :
        /\ Len(wire.enq) < MaxEnq
        /\ LET r == enqueue(outbox, packet)
           IN  /\ outbox' = r.o
               /\ oret' = [op |-> "enqueue", res |-> r.res]
               /\ wire' = IF r.res = "Ok" THEN [wire EXCEPT !.enq = Append(@, r.bytes)]
                          ELSE wire
        /\ UNCHANGED <<poolVars, sessVars, kaVars, clientVars, codecVars, incomingVars>>

FlushOne ==
    \E writeOk \in BOOLEAN :
        /\ LET r == flush_one(outbox, writeOk)
           IN  /\ outbox' = r.o
               /\ oret' = [op |-> "flush_one", res |-> r.res]
               /\ wire' = [wire EXCEPT !.sent = @ \o r.written]
        /\ UNCHANGED <<poolVars, sessVars, kaVars, clientVars, codecVars, incomingVars>>

NextOutbox == Enqueue \/ FlushOne

SpecOutbox == Init /\ [][NextOutbox]_vars

(***************************************************************************)
(* SpecPool: any sequence of allocations, releases and clear.              *)
(***************************************************************************)
PoolStep(op, r, id) ==
    /\ pool' = r.p
    /\ pret' = [op |-> op, res |-> r.res, id |-> id]
    /\ UNCHANGED <<outboxVars, sessVars, kaVars, clientVars, codecVars, incomingVars>>

NextPubId ==
    \E just_ack \in BOOLEAN :
        LET r == next_pub_id(pool, just_ack) IN PoolStep("next_pub_id", r, r.id)

NextSubId == LET r == next_sub_id(pool) IN PoolStep("next_sub_id", r, r.id)

NextUnsubId == LET r == next_unsub_id(pool) IN PoolStep("next_unsub_id", r, r.id)

SetPubrel ==
    \E id \in PacketIds : PoolStep("set_pubrel", set_pubrel(pool, id), 0)

ReleasePubId ==
    \E id \in PacketIds, just_ack \in BOOLEAN :
        PoolStep("release_pub_id", release_pub_id(pool, id, just_ack), 0)

ReleaseSubId ==
    \E id \in PacketIds : PoolStep("release_sub_id", release_sub_id(pool, id), 0)

ReleaseUnsubId ==
    \E id \in PacketIds : PoolStep("release_unsub_id", release_unsub_id(pool, id), 0)

Clear == PoolStep("clear", [res |-> "Ok", p |-> clear(pool)], 0)

NextPool ==
    \/ NextPubId \/ NextSubId \/ NextUnsubId \/ SetPubrel
    \/ ReleasePubId \/ ReleaseSubId \/ ReleaseUnsubId \/ Clear

SpecPool == Init /\ [][NextPool]_vars

(***************************************************************************)
(* SpecSession: any sequence of Session calls and inbound packets.  A      *)
(* failed debug assertion ends the program.                                *)
(***************************************************************************)
Topics == {"a", "b"}

SessStep(op, r) ==
    /\ sret.res # "Panic"
    /\ sess' = r.s
    /\ sret' = [op |-> op, res |-> r.res, action |-> r.action]
    /\ UNCHANGED <<outboxVars, poolVars, kaVars, clientVars, codecVars, incomingVars>>

Connect ==
    \E clean_session \in BOOLEAN : SessStep("connect", connect(sess, clean_session))

Publish ==
    \E qos \in QoSLevels, topic \in Topics : SessStep("publish", publish(sess, qos, topic))

Subscribe ==
    \E topic \in Topics, qos \in {"AtLeastOnce"} :
        SessStep("subscribe", subscribe(sess, Subscription_new(topic, qos)))

Unsubscribe == \E topic \in Topics : SessStep("unsubscribe", unsubscribe(sess, topic))

Disconnect == SessStep("disconnect", disconnect(sess))

Ping == SessStep("ping", ping(sess))

\* ConnAck::decode refuses session_present together with a refusal code
OnConnack ==
    \E session_present \in BOOLEAN, return_code \in {"Accepted", "NotAuthorized"} :
        /\ return_code # "Accepted" => ~session_present
        /\ SessStep("on_connack",
                    on_connack(sess, [session_present |-> session_present,
                                      return_code |-> return_code]))

OnPublish ==
    \E qos \in QoSLevels, topic \in Topics, id \in PacketIds, dup \in BOOLEAN :
        \* publish::Flags::try_from refuses DUP on QoS 0; QoS 0 carries no id
        /\ qos = "AtMostOnce" => (id = 1 /\ ~dup)
        /\ SessStep("on_publish",
                    on_publish(sess, [qos |-> qos, topic |-> topic, dup |-> dup,
                                      id |-> IF qos = "AtMostOnce" THEN 0 ELSE id]))

OnPuback == \E id \in PacketIds : SessStep("on_puback", on_puback(sess, id))

OnPubrec == \E id \in PacketIds : SessStep("on_pubrec", on_pubrec(sess, id))

OnPubrel == \E id \in PacketIds : SessStep("on_pubrel", on_pubrel(sess, id))

OnPubcomp == \E id \in PacketIds : SessStep("on_pubcomp", on_pubcomp(sess, id))

OnSuback ==
    \E id \in PacketIds, debugBuild \in BOOLEAN,
       codes \in {<<>>, <<"SuccessMaxQoS1">>, <<"Failure">>, <<"SuccessMaxQoS0", "Failure">>} :
        SessStep("on_suback",
                 on_suback(sess, [packet_id |-> id, return_codes |-> codes], debugBuild))

OnUnsuback == \E id \in PacketIds : SessStep("on_unsuback", on_unsuback(sess, id))

OnPingreq == SessStep("on_pingreq", on_pingreq(sess))

OnPingresp == SessStep("on_pingresp", on_pingresp(sess))

OnDisconnect == SessStep("on_disconnect", on_disconnect(sess))

NextSession ==
    \/ Connect \/ Publish \/ Subscribe \/ Unsubscribe \/ Disconnect \/ Ping
    \/ OnConnack \/ OnPublish \/ OnPuback \/ OnPubrec \/ OnPubrel \/ OnPubcomp
    \/ OnSuback \/ OnUnsuback \/ OnPingreq \/ OnPingresp \/ OnDisconnect

SpecSession == Init /\ [][NextSession]_vars

(***************************************************************************)
(* SpecKeepAlive: the clock advances; both keep-alives are driven with any *)
(* sequence of their calls.                                                *)
(***************************************************************************)
InitKeepAlive == \E d \in {0, KeepAliveTicks} : InitWith(d)

KaFrame == UNCHANGED <<outboxVars, poolVars, sessVars, clientVars, codecVars, incomingVars>>

Tick == now < MaxTime /\ now' = now + 1 /\ UNCHANGED <<ka, cka, kret>> /\ KaFrame

KaOnSend ==
    /\ ka' = on_send(ka, now)
    /\ kret' = [op |-> "on_send", res |-> "Ok", val |-> FALSE]
    /\ UNCHANGED <<cka, now>> /\ KaFrame

KaOnReceive ==
    /\ ka' = on_receive(ka, now)
    /\ kret' = [op |-> "on_receive", res |-> "Ok", val |-> FALSE]
    /\ UNCHANGED <<cka, now>> /\ KaFrame

KaShouldPing ==
    LET r == should_ping(ka, now)
    IN  /\ ka' = r.k
        /\ kret' = [op |-> "should_ping", res |-> r.res, val |-> r.val]
        /\ UNCHANGED <<cka, now>> /\ KaFrame

KaTimedOut ==
    LET r == timed_out(ka, now)
    IN  /\ kret' = [op |-> "timed_out", res |-> r.res, val |-> r.val]
        /\ UNCHANGED <<ka, cka, now>> /\ KaFrame

ClientUpdate ==
    /\ cka' = client_update(cka, now)
    /\ kret' = [op |-> "client_update", res |-> "Ok", val |-> FALSE]
    /\ UNCHANGED <<ka, now>> /\ KaFrame

ClientShouldPing ==
    LET r == client_should_ping(cka, now)
    IN  /\ cka' = r.k
        /\ kret' = [op |-> "client_should_ping", res |-> r.res, val |-> r.val]
        /\ UNCHANGED <<ka, now>> /\ KaFrame

ClientTimedOut ==
    LET r == client_timed_out(cka, now)
    IN  /\ kret' = [op |-> "client_timed_out", res |-> r.res, val |-> r.val]
        /\ UNCHANGED <<ka, cka, now>> /\ KaFrame

NextKeepAlive ==
    \/ Tick \/ KaOnSend \/ KaOnReceive \/ KaShouldPing \/ KaTimedOut
    \/ ClientUpdate \/ ClientShouldPing \/ ClientTimedOut

SpecKeepAlive == InitKeepAlive /\ [][NextKeepAlive]_vars

(***************************************************************************)
(* SpecClient: a Client driven through its public calls; every poll_io is  *)
(* offered one of the byte strings of Inbound by the transport.            *)
(***************************************************************************)
Inbound ==
    {<<>>,                          \* end of stream
     <<32, 2, 0, 0>>,               \* CONNACK accepted
     <<32, 2, 1, 0>>,               \* CONNACK accepted, session present
     <<32, 2, 0, 5>>,               \* CONNACK not authorized
     <<32, 2, 1, 5>>,               \* CONNACK refused with session present
     <<48, 3, 0, 1, 97>>,           \* PUBLISH QoS 0 "a"
     <<50, 5, 0, 1, 97, 0, 1>>,     \* PUBLISH QoS 1 "a" id 1
     <<52, 5, 0, 1, 97, 0, 1>>,     \* PUBLISH QoS 2 "a" id 1
     <<64, 2, 0, 1>>,               \* PUBACK 1
     <<64, 2, 0, 0>>,               \* PUBACK 0
     <<64, 2, 0>>,                  \* PUBACK cut short
     <<65, 2, 0, 1>>,               \* PUBACK with flags 0001
     <<80, 2, 0, 1>>,               \* PUBREC 1
     <<98, 2, 0, 1>>,               \* PUBREL 1, flags 0010
     <<100, 2, 0, 1>>,              \* PUBREL 1, flags 0100
     <<112, 2, 0, 1>>,              \* PUBCOMP 1
     <<144, 3, 0, 1, 1>>,           \* SUBACK 1 [QoS 1]
     <<176, 2, 0, 1>>,              \* UNSUBACK 1
     <<192, 0>>,                    \* PINGREQ
     <<208, 0>>,                    \* PINGRESP
     <<208, 1, 0>>,                 \* PINGRESP with a body
     <<224, 0>>,                    \* DISCONNECT
     <<16, 0>>,                     \* CONNECT
     <<132, 0>>,                    \* SUBSCRIBE
     <<164, 0>>,                    \* UNSUBSCRIBE
     <<0, 0>>,                      \* type 0
     <<240, 0>>}                    \* type 15

InitClient ==
    LET c == Client_try_new(0, Generic_new(KeepAliveTicks, ScalingFactor))
    IN  /\ outbox = c.outbox
        /\ sess = c.session
        /\ cka = c.keep_alive
        /\ wire = [enq |-> <<>>, sent |-> <<>>]
        /\ oret = NoRet
        /\ pool = PacketIdPool_new
        /\ pret = [op |-> "none", res |-> "Ok", id |-> 0]
        /\ sret = [op |-> "none", res |-> "Ok", action |-> NoAction]
        /\ now = 0
        /\ ka = KeepAlive_try_new(0, Generic_new(KeepAliveTicks, ScalingFactor))
        /\ kret = [op |-> "none", res |-> "Ok", val |-> FALSE]
        /\ cret = NoClientRet
        /\ nenq = 0
        /\ codec = NoCodec
        /\ incoming = Publish_new
        /\ iret = NoRet

\* the Client the variables hold
ThisClient == [session |-> sess, keep_alive |-> cka, outbox |-> outbox]

ClientFrame(c) ==
    /\ cret.res # "Panic"
    /\ nenq < ClientMaxEnq
    /\ nenq' = IF Len(c.outbox.queue) > Len(outbox.queue) THEN nenq + 1 ELSE nenq
    /\ sess' = c.session
    /\ cka' = c.keep_alive
    /\ outbox' = c.outbox
    /\ UNCHANGED <<wire, oret, poolVars, sret, ka, now, kret, codecVars, incomingVars>>

ScheduleStep(op, r) ==
    /\ ClientFrame(r.c)
    /\ cret' = [NoClientRet EXCEPT !.op = op, !.res = r.res]

ScheduleConnect ==
    \E clean_session \in BOOLEAN :
        ScheduleStep("schedule_connect", schedule_connect(ThisClient, clean_session))

ScheduleDisconnect == ScheduleStep("schedule_disconnect", schedule_disconnect(ThisClient))

SchedulePing == ScheduleStep("schedule_ping", schedule_ping(ThisClient))

SchedulePublish ==
    \E qos \in {"AtMostOnce", "AtLeastOnce"} :
        ScheduleStep("schedule_publish", schedule_publish(ThisClient, qos, "a"))

\* What poll_io does not read is not varied: the transport's input when
\* nothing is read, the fate of write_all when nothing is written, the
\* build when the packet is no SUBACK.
PollIo ==
    \E clockOk \in BOOLEAN, writeOk \in BOOLEAN, inp \in Inbound, debugBuild \in BOOLEAN :
        /\ (has_pending(outbox) \/ ~clockOk) => inp = <<>>
        /\ (~has_pending(outbox) \/ ~clockOk) => writeOk
        /\ debugBuild => (inp # <<>> /\ inp[1] = 144)
        /\ LET r == poll_io(ThisClient, now, clockOk, writeOk, inp, debugBuild)
           IN  /\ ClientFrame(r.c)
               /\ cret' = [op |-> "poll_io", res |-> r.res, event |-> r.event,
                           inbound |-> r.inbound.type, handler |-> r.handler]

NextClient ==
    \/ ScheduleConnect \/ ScheduleDisconnect \/ SchedulePing \/ SchedulePublish
    \/ PollIo

SpecClient == InitClient /\ [][NextClient]_vars

(***************************************************************************)
(* The Client driven by its timers: the clock moves a keep-alive interval  *)
(* at a time, the caller connects and calls poll_timers or poll, and the   *)
(* broker answers with a CONNACK or a PINGRESP, or not at all.             *)
(***************************************************************************)
TimerInbound == {<<>>, <<32, 2, 0, 0>>, <<208, 0>>}

ClientTick ==
    /\ now + KeepAliveTicks <= MaxTime
    /\ now' = now + KeepAliveTicks
    /\ UNCHANGED <<outboxVars, poolVars, sessVars, ka, cka, kret, clientVars,
                   codecVars, incomingVars>>

\* As ClientFrame, with the clock free to move between the calls
TimerFrame(c) ==
    /\ nenq < ClientMaxEnq
    /\ nenq' = IF Len(c.outbox.queue) > Len(outbox.queue) THEN nenq + 1 ELSE nenq
    /\ sess' = c.session
    /\ cka' = c.keep_alive
    /\ outbox' = c.outbox
    /\ UNCHANGED <<wire, oret, poolVars, sret, ka, now, kret, codecVars, incomingVars>>

TimerStep(r, ret) ==
    /\ TimerFrame(r.c)
    /\ cret' = [ret EXCEPT !.res = r.res]

TimerConnect ==
    \E clean_session \in BOOLEAN :
        TimerStep(schedule_connect(ThisClient, clean_session),
                  [NoClientRet EXCEPT !.op = "schedule_connect"])

PollTimers ==
    \E clockOk \in BOOLEAN :
        TimerStep(poll_timers(ThisClient, now, clockOk),
                  [NoClientRet EXCEPT !.op = "poll_timers"])

PollStep(r, clockOk, writeOk, inp) ==
    /\ r.reads = 0 => inp = <<>>
    /\ (r.reads > 0 \/ ~clockOk) => writeOk
    /\ TimerStep(r, [op |-> "poll", res |-> r.res, event |-> r.event,
                     inbound |-> r.inbound.type, handler |-> r.handler])

Poll ==
    \E clockOk \in BOOLEAN, writeOk \in BOOLEAN, inp \in TimerInbound :
        PollStep(poll(ThisClient, now, clockOk, writeOk, inp, FALSE),
                 clockOk, writeOk, inp)

NextTimers == ClientTick \/ TimerConnect \/ PollTimers \/ Poll

SpecTimers == InitClient /\ [][NextTimers]_vars

(***************************************************************************)
(* The incoming tracker on its own.                                        *)
(***************************************************************************)
IncomingStep(op, id, r) ==
    /\ incoming' = r.t
    /\ iret' = [op |-> op, res |-> r.res, id |-> id,
                known |-> \E i \in 1..Len(incoming.pubs) : incoming.pubs[i].id = id]
    /\ UNCHANGED <<outboxVars, poolVars, sessVars, kaVars, clientVars, codecVars>>

Track == \E id \in InIds : IncomingStep("track", id, track(incoming, id))

MarkComplete ==
    \E id \in InIds : IncomingStep("mark_complete", id, mark_complete(incoming, id))

NextIncoming == Track \/ MarkComplete

SpecIncoming == Init /\ [][NextIncoming]_vars

(***************************************************************************)
(* The encoders and decoders as functions: every step applies one of them  *)
(* to an input drawn from a bounded set and records what it returned.      *)
(***************************************************************************)
\* Lengths around each power of 128, where the number of length bytes changes
Lengths ==
    {b + d : b \in {0, 128, 128 * 128, 128 * 128 * 128, 128 * 128 * 128 * 128},
             d \in (0 - LenWindow)..LenWindow} \cap Nat

\* Length fields as they arrive: up to MaxLenBytes bytes, with and without
\* the continuation bit
LenInputs == UNION {[1..k -> {0, 1, 127, 128, 255}] : k \in 1..MaxLenBytes}

\* One call per behaviour: the functions keep no state between calls
CodecStep(r) ==
    /\ codec = NoCodec
    /\ codec' = r
    /\ UNCHANGED <<outboxVars, poolVars, sessVars, kaVars, clientVars, incomingVars>>

EncodeLen ==
    \E len \in Lengths :
        LET written == remaining_length(len)
        IN  CodecStep([op |-> "remaining_length", n |-> len, enc |-> written,
                       calc |-> calculate_remaining_length(len),
                       back |-> read_remaining_len(written.bytes, 0)])

DecodeLen ==
    \E bytes \in LenInputs, overflowChecks \in BOOLEAN :
        CodecStep([op |-> "read_remaining_len", inp |-> bytes,
                   debugBuild |-> overflowChecks,
                   parser |-> read_remaining_len(bytes, 0),
                   protocol |-> parse_remaining_len(RemainingLen_start, bytes, 0,
                                                    overflowChecks)])

\* The packets handed to Packet::encode: every type, a PUBLISH with an
\* identifier exactly when its QoS is above 0 and with dup only then
CodecPackets ==
    {[type |-> "Connect", clean_session |-> cs, keep_alive |-> secs, client_id |-> cid] :
        cs \in BOOLEAN, secs \in {0, 300}, cid \in {<<>>, <<99>>}}
    \cup {[type |-> "Publish", dup |-> d, qos |-> q, retain |-> r, topic |-> <<97>>,
           id |-> i, payload |-> pl] :
              d \in BOOLEAN, q \in QoSLevels, r \in BOOLEAN, i \in {0, 1, 258},
              pl \in {<<>>, <<1>>, <<1, 2>>}}
    \cup {[type |-> "Subscribe", id |-> i, topic |-> <<97>>, qos |-> q] :
              i \in {1, 258}, q \in QoSLevels}
    \cup {[type |-> "Unsubscribe", id |-> i, topic |-> <<97>>] : i \in {1, 258}}
    \cup {[type |-> t, id |-> i] :
              t \in {"PubAck", "PubRec", "PubRel", "PubComp", "UnsubAck"}, i \in {1, 258}}
    \cup {[type |-> t] : t \in {"PingReq", "PingResp", "Disconnect"}}

LegalPacket(p) ==
    p.type = "Publish" =>
        /\ (p.qos = "AtMostOnce") = (p.id = 0)
        /\ p.dup => p.qos # "AtMostOnce"

\* Packet::encode into a cursor of CodecBufLen bytes, the first byte of the
\* result handed to parse_first_byte, and the result split by
\* read_fixed_header and handed to Packet::decode
EncodePacket ==
    \E p \in {q \in CodecPackets : LegalPacket(q)} :
        LET written == PacketEncode(p, CodecBufLen)
            header == read_fixed_header(written.bytes)
        IN  CodecStep([op |-> "encode", packet |-> p, enc |-> written,
                       first |-> IF written.bytes = <<>> THEN "None"
                                 ELSE parse_first_byte(written.bytes[1]).res,
                       dec |-> IF written.res # "Ok" THEN PErr(written.res)
                               ELSE IF header.res # "Ok" THEN PErr(header.res)
                               ELSE Packet_decode(header.header,
                                        SubSeq(written.bytes, header.pos + 1,
                                               Len(written.bytes)))])

NextCodec == EncodeLen \/ DecodeLen \/ EncodePacket

SpecCodec == Init /\ [][NextCodec]_vars

(***************************************************************************)
(* SpecSilent: the keep-alives under a broker that never answers.  Nothing *)
(* is received; the application may send at any time; the clock never      *)
(* stops.  The keep-alives read instants only through elapsed, the         *)
(* difference of two of them, so once the clock has reached MaxTime a      *)
(* further tick is written by moving last_activity one back instead (an    *)
(* elapsed time above MaxTime, which exceeds every threshold, is kept at   *)
(* MaxTime).  Fairness: time advances and timed_out keeps being asked.     *)
(***************************************************************************)
EarlierByOne(k) == [k EXCEPT !.last_activity = IF @ > 0 THEN @ - 1 ELSE 0]

SilentTick ==
    /\ IF now < MaxTime
       THEN now' = now + 1 /\ UNCHANGED <<ka, cka>>
       ELSE now' = now /\ ka' = EarlierByOne(ka) /\ cka' = EarlierByOne(cka)
    /\ UNCHANGED kret
    /\ KaFrame

NextSilent ==
    \/ SilentTick \/ KaOnSend \/ KaShouldPing \/ KaTimedOut
    \/ ClientUpdate \/ ClientShouldPing \/ ClientTimedOut

SpecSilent ==
    Init /\ [][NextSilent]_vars
        /\ WF_vars(SilentTick) /\ WF_vars(KaTimedOut) /\ WF_vars(ClientTimedOut)

(***************************************************************************)
(* Properties of the Outbox (SpecOutbox)                                   *)
(***************************************************************************)
\* C1: the byte strings handed to transport.write_all are, in order, the
\* encodings of the packets successfully enqueued: what has been sent is
\* always a prefix of what has been enqueued.
C1_FifoOrder ==
    /\ Len(wire.sent) <= Len(wire.enq)
    /\ wire.sent = SubSeq(wire.enq, 1, Len(wire.sent))

\* C2: every queued range lies inside the buffer, the ranges are in
\* insertion order with end[i] <= start[i+1] (so they do not overlap), and
\* a flush_one that leaves the queue empty leaves the cursor at 0.
C2_RangesDisjointInBuffer ==
    /\ \A i \in 1..Len(outbox.queue) :
          /\ 0 <= outbox.queue[i].start
          /\ outbox.queue[i].start <= outbox.queue[i].end
          /\ outbox.queue[i].end <= Len(outbox.buf)
    /\ \A i \in 1..(Len(outbox.queue) - 1) :
          outbox.queue[i].end <= outbox.queue[i + 1].start
    /\ (oret.op = "flush_one" /\ oret.res = "Ok" /\ outbox.queue = <<>>)
          => outbox.cursor = 0

(***************************************************************************)
(* Properties of the packet-identifier pool (SpecPool)                     *)
(***************************************************************************)
\* C3: no identifier held or returned is 0, the cursor next_id stays in
\* 1..U16Max, and no identifier is held by two of the three stores.
C3_PoolIdsValid ==
    /\ \A i \in 1..N_PUB_OUT :
          pool.in_flight_pub[i] # NoPub => pool.in_flight_pub[i].id \in 1..U16Max
    /\ SubIds(pool) \subseteq 1..U16Max
    /\ UnsubIds(pool) \subseteq 1..U16Max
    /\ (pret.op \in {"next_pub_id", "next_sub_id", "next_unsub_id"} /\ pret.res = "Ok")
          => pret.id \in 1..U16Max
    /\ pool.next_id \in 1..U16Max
    /\ PubIds(pool) \cap SubIds(pool) = {}
    /\ PubIds(pool) \cap UnsubIds(pool) = {}
    /\ SubIds(pool) \cap UnsubIds(pool) = {}
    /\ \A i, j \in 1..N_PUB_OUT :
          (i # j /\ pool.in_flight_pub[i] # NoPub /\ pool.in_flight_pub[j] # NoPub)
              => pool.in_flight_pub[i].id # pool.in_flight_pub[j].id

\* C3 witness: identifier 1 handed out again to the subscribe store after the
\* cursor wrapped around, while the publish store still holds U16Max.
C3_Witness_ReusedAfterWrap ==
    /\ pret.op = "next_sub_id" /\ pret.res = "Ok" /\ pret.id = 1
    /\ U16Max \in PubIds(pool)
    /\ 1 \in SubIds(pool)

\* C4: in every reachable pool state, an allocation whose store has no free
\* slot, or made while every identifier of 1..U16Max is held, returns
\* NoPacketIdAvailable; and an allocation that succeeds returns an
\* identifier no store held.
C4_AllocFailsWhenSaturated ==
    LET Alloc(kind) == CASE kind = "PubAck" -> next_pub_id(pool, TRUE)
                         [] kind = "PubRec" -> next_pub_id(pool, FALSE)
                         [] kind = "Sub" -> next_sub_id(pool)
                         [] kind = "Unsub" -> next_unsub_id(pool)
        Full(kind) == CASE kind \in {"PubAck", "PubRec"} ->
                               \A i \in 1..N_PUB_OUT : pool.in_flight_pub[i] # NoPub
                        [] kind = "Sub" -> \A i \in 1..N_SUB : pool.in_flight_sub[i] # 0
                        [] kind = "Unsub" -> \A i \in 1..N_SUB : pool.in_flight_unsub[i] # 0
    IN  \A kind \in {"PubAck", "PubRec", "Sub", "Unsub"} :
            /\ (Full(kind) \/ HeldIds(pool) = 1..U16Max)
                  => Alloc(kind).res = "NoPacketIdAvailable"
            /\ Alloc(kind).res = "Ok" => Alloc(kind).id \notin HeldIds(pool)
            /\ Alloc(kind).res \in {"Ok", "NoPacketIdAvailable"}

\* C4 witness: an unsubscribe allocation failed although its store has a
\* free slot, because every identifier is held.
C4_Witness_SweepFailed ==
    /\ pret.op = "next_unsub_id" /\ pret.res = "NoPacketIdAvailable"
    /\ HeldIds(pool) = 1..U16Max
    /\ \E i \in 1..N_SUB : pool.in_flight_unsub[i] = 0

(***************************************************************************)
(* Properties of the session (SpecSession)                                 *)
(***************************************************************************)
\* C5: a PUBREC the session accepts is answered with PUBREL, and a PUBCOMP
\* the session accepts yields the event Published.
C5_OutgoingQoS2Flow ==
    /\ (sret.op = "on_pubrec" /\ sret.res = "Ok")
          => (sret.action.kind = "Send" /\ sret.action.packet.type = "PubRel")
    /\ (sret.op = "on_pubcomp" /\ sret.res = "Ok") => sret.action = Event("Published")

\* C6: an inbound QoS 2 PUBLISH the session accepts is answered with PUBREC
\* and an inbound PUBREL the session accepts is answered with PUBCOMP.
C6_IncomingQoS2Flow ==
    /\ (sret.op = "on_publish" /\ sret.res = "Ok" /\ sret.action.kind = "Send")
          => sret.action.packet.type \in {"PubAck", "PubRec"}
    /\ (sret.op = "on_pubrel" /\ sret.res = "Ok")
          => (sret.action.kind = "Send" /\ sret.action.packet.type = "PubComp")

C9_OneRecordPerTopic ==
    \A i, j \in 1..Len(sess.subscriptions) :
        i # j => sess.subscriptions[i].topic # sess.subscriptions[j].topic

C11_GatedByConnected ==
    (/\ sret.op \in {"publish", "subscribe", "unsubscribe", "ping", "on_publish",
                     "on_puback", "on_pubrec", "on_pubrel", "on_pubcomp",
                     "on_suback", "on_unsuback", "on_pingreq", "on_pingresp"}
     /\ sess.state \in {"Disconnected", "Connecting"})
        => (sret.res # "Ok" /\ sret.action = NoAction)

\* C12, for schedule_ping: a schedule_ping that returns a resource error
\* leaves the session (identifiers held, in-flight records,
\* ping_outstanding, subscriptions) and the queue of the outbox exactly as
\* they were before the call.
C12_ResourceErrorLeavesNoTrace ==
    [][(/\ cret'.op = "schedule_ping"
        /\ cret'.res \in {"BufferTooSmall", "VectorIsFull", "SubVectorIsFull",
                          "NoPacketIdAvailable"})
           => (sess' = sess /\ outbox'.queue = outbox.queue)]_vars

C14_ReplyQueued ==
    /\ (cret.op = "poll_io" /\ cret.res = "Ok"
            /\ cret.inbound \in {"PubRec", "PubRel", "PingReq"}) =>
          /\ outbox.queue # <<>>
          /\ LET range == outbox.queue[Len(outbox.queue)]
                 reply == CASE cret.inbound = "PubRec" -> "PubRel"
                            [] cret.inbound = "PubRel" -> "PubComp"
                            [] cret.inbound = "PingReq" -> "PingResp"
             IN  outbox.buf[range.start + 1] \div 16 = PacketTypeCode(reply)
    /\ (cret.op = "poll_io" /\ cret.res = "Ok" /\ cret.inbound = "Publish"
            /\ cret.event = "None") => outbox.queue # <<>>

C16_ConnackReturnCode ==
    \A session_present \in BOOLEAN, return_code \in {"Accepted", "NotAuthorized"} :
        (sess.state = "Connecting" /\ (return_code # "Accepted" => ~session_present)) =>
            LET r == on_connack(sess, [session_present |-> session_present,
                                       return_code |-> return_code])
            IN  IF return_code = "Accepted"
                THEN /\ r.res = "Ok"
                     /\ r.action = Event("Connected")
                     /\ r.s.state = "Connected"
                     /\ r.s.pool = PacketIdPool_new
                     /\ r.s.subscriptions =
                           IF session_present THEN sess.subscriptions ELSE <<>>
                ELSE /\ r.res # "Ok"
                     /\ r.action = NoAction
                     /\ r.s.state # "Connected"

C18_SubackApplied ==
    /\ sret.op = "on_suback" => sret.res # "Panic"
    /\ (sret.op = "on_suback" /\ sret.res = "Ok") =>
          \/ /\ sret.action = Event("Subscribed")
             /\ \E i \in 1..Len(sess.subscriptions) : sess.subscriptions[i].state = Active
          \/ /\ sret.action = Event("SubscribeFailed")
             /\ \E i \in 1..Len(sess.subscriptions) :
                   sess.subscriptions[i].state.t = "Failed"

\* C19: in every reachable session state, an on_unsuback(id) that succeeds
\* removes exactly one subscription and keeps the others in order; one that
\* fails removes nothing.
C19_UnsubackRemovesOne ==
    \A id \in PacketIds :
        LET r == on_unsuback(sess, id)
        IN  IF r.res = "Ok"
            THEN /\ r.action = Event("Unsubscribed")
                 /\ id \in UnsubIds(sess.pool) /\ id \notin UnsubIds(r.s.pool)
                 /\ \E i \in 1..Len(sess.subscriptions) :
                       r.s.subscriptions =
                           SubSeq(sess.subscriptions, 1, i - 1)
                               \o SubSeq(sess.subscriptions, i + 1, Len(sess.subscriptions))
            ELSE r.action = NoAction /\ r.s.subscriptions = sess.subscriptions

\* C20: a subscribe that succeeds and emits SUBSCRIBE with an id leaves the
\* one record of that topic in state Pending(id).
C20_SubscribeSetsPending ==
    (sret.op = "subscribe" /\ sret.res = "Ok" /\ sret.action.kind = "Send") =>
        \E i \in 1..Len(sess.subscriptions) :
            /\ sess.subscriptions[i].topic = sret.action.packet.topic
            /\ sess.subscriptions[i].state = Pending(sret.action.packet.id)

(***************************************************************************)
(* Properties of the keep-alives (SpecKeepAlive)                           *)
(***************************************************************************)
\* C8: for an enabled keep-alive with interval D and last activity t0,
\* should_ping is true from now - t0 >= D/2 on and not before, timed_out is
\* true from now - t0 >= D on while the ping is outstanding, and a receive
\* clears the outstanding ping; for the keep-alive of keep_alive.rs (first
\* conjunct, on every reachable state) and for the one of client.rs (second
\* conjunct, on the answer of the should_ping that just returned).
C8_HalfIntervalPing ==
    /\ (ka.enabled /\ now >= ka.last_activity) =>
          /\ should_ping(ka, now).val <=>
                (~ka.ping_outstanding
                    /\ 2 * (now - ka.last_activity) >= ka.keep_alive.integer)
          /\ should_ping(ka, now).val => should_ping(ka, now).k.ping_outstanding
          /\ timed_out(ka, now).val <=>
                (ka.ping_outstanding /\ now - ka.last_activity >= ka.keep_alive.integer)
          /\ ~on_receive(ka, now).ping_outstanding
          /\ ~timed_out(on_receive(ka, now), now).val
    /\ (kret.op = "client_should_ping" /\ kret.res = "Ok" /\ cka.keep_alive.integer # 0)
          => (kret.val <=> 2 * (now - cka.last_activity) >= cka.keep_alive.integer)

\* C21: while Connected, an unsubscribe that succeeds and emits UNSUBSCRIBE
\* with an id leaves a record in state UnsubPending(id).
C21_UnsubscribeSetsUnsubPending ==
    (/\ sess.state = "Connected"
     /\ sret.op = "unsubscribe" /\ sret.res = "Ok" /\ sret.action.kind = "Send") =>
        \E i \in 1..Len(sess.subscriptions) :
            sess.subscriptions[i].state = UnsubPending(sret.action.packet.id)

\* C22: a ping made while a ping is outstanding fails with PingOutstanding
\* and emits nothing.
C22_PingWhileOutstanding ==
    [][(sess.ping_outstanding /\ sret'.op = "ping")
          => (sret'.res = "PingOutstanding" /\ sret'.action = NoAction)]_vars

\* The state of the outgoing-publish record of an identifier, "None" when the
\* pool has no record of it
PubStateOf(p, packet_id) ==
    IF \E i \in 1..Len(p.in_flight_pub) :
           p.in_flight_pub[i] # NoPub /\ p.in_flight_pub[i].id = packet_id
    THEN (CHOOSE e \in {p.in_flight_pub[i] : i \in 1..Len(p.in_flight_pub)} :
              e # NoPub /\ e.id = packet_id).state
    ELSE "None"

\* C28: on every reachable pool and for every identifier, release_pub_id with
\* just_ack removes a record in AwaitPubAck, set_pubrel moves AwaitPubRec to
\* AwaitPubComp and leaves AwaitPubComp as it is, release_pub_id without
\* just_ack removes a record in AwaitPubComp; every other pair, and every
\* operation on an identifier without a record, returns ProtocolViolation and
\* leaves the pool unchanged.
C28_PubRecordTransitions ==
    \A id \in PacketIds :
        LET st   == PubStateOf(pool, id)
            ack  == release_pub_id(pool, id, TRUE)
            rel  == set_pubrel(pool, id)
            comp == release_pub_id(pool, id, FALSE)
            Removed(r) ==
                /\ r.res = "Ok"
                /\ PubStateOf(r.p, id) = "None"
                /\ \A other \in PacketIds \ {id} :
                       PubStateOf(r.p, other) = PubStateOf(pool, other)
                /\ r.p.in_flight_sub = pool.in_flight_sub
                /\ r.p.in_flight_unsub = pool.in_flight_unsub
            Refused(r) == r.res = "ProtocolViolation" /\ r.p = pool
        IN  /\ IF st = "AwaitPubAck" THEN Removed(ack) ELSE Refused(ack)
            /\ IF st = "AwaitPubComp" THEN Removed(comp) ELSE Refused(comp)
            /\ CASE st = "AwaitPubRec" ->
                        /\ rel.res = "Ok"
                        /\ PubStateOf(rel.p, id) = "AwaitPubComp"
                        /\ \A other \in PacketIds \ {id} :
                               PubStateOf(rel.p, other) = PubStateOf(pool, other)
                 [] st = "AwaitPubComp" -> rel.res = "Ok" /\ rel.p = pool
                 [] OTHER -> Refused(rel)

\* C28 witness: a PUBREL was recorded and a record awaits PUBCOMP next to a
\* record that awaits PUBACK
C28_Witness_AwaitPubComp ==
    /\ pret.op = "set_pubrel" /\ pret.res = "Ok"
    /\ \E id \in PacketIds : PubStateOf(pool, id) = "AwaitPubComp"
    /\ \E id \in PacketIds : PubStateOf(pool, id) = "AwaitPubAck"

\* C29: on every reachable pool and for every identifier, release_sub_id and
\* release_unsub_id remove an identifier their own store holds, after which
\* the pool no longer contains it, and fail with ProtocolViolation, leaving
\* the pool unchanged, for an identifier their own store does not hold.
C29_ReleaseOwnStoreOnly ==
    \A id \in PacketIds :
        LET sub   == release_sub_id(pool, id)
            unsub == release_unsub_id(pool, id)
        IN  /\ IF id \in SubIds(pool)
               THEN /\ sub.res = "Ok"
                    /\ SubIds(sub.p) = SubIds(pool) \ {id}
                    /\ ~contains(sub.p, id)
                    /\ sub.p.in_flight_pub = pool.in_flight_pub
                    /\ sub.p.in_flight_unsub = pool.in_flight_unsub
                    /\ sub.p.next_id = pool.next_id
               ELSE sub.res = "ProtocolViolation" /\ sub.p = pool
            /\ IF id \in UnsubIds(pool)
               THEN /\ unsub.res = "Ok"
                    /\ UnsubIds(unsub.p) = UnsubIds(pool) \ {id}
                    /\ ~contains(unsub.p, id)
                    /\ unsub.p.in_flight_pub = pool.in_flight_pub
                    /\ unsub.p.in_flight_sub = pool.in_flight_sub
                    /\ unsub.p.next_id = pool.next_id
               ELSE unsub.res = "ProtocolViolation" /\ unsub.p = pool

\* C29 witness: release_sub_id was refused while every identifier is held by
\* the store of the unsubscribe identifiers
C29_Witness_HeldElsewhere ==
    /\ pret.op = "release_sub_id" /\ pret.res = "ProtocolViolation"
    /\ UnsubIds(pool) = PacketIds

(***************************************************************************)
(* Properties of the incoming tracker (SpecIncoming)                       *)
(***************************************************************************)
\* C30: on every reachable tracker, track of an identifier that some slot
\* holds, in AwaitPubRel or in Done, returns Ok and leaves the slots, their
\* states and the cursor as they are; and no two slots hold the same
\* identifier.
C30_TrackKnownIdIsNoOp ==
    /\ \A id \in InIds :
           (\E i \in 1..Len(incoming.pubs) : incoming.pubs[i].id = id) =>
               track(incoming, id) = [res |-> "Ok", t |-> incoming]
    /\ \A i, j \in 1..Len(incoming.pubs) :
           i # j => incoming.pubs[i].id # incoming.pubs[j].id

\* C30 witness: the tracker is full, track was called for an identifier whose
\* slot is Done, and the slot is still Done
C30_Witness_RedeliveredAfterPubrel ==
    /\ iret.op = "track" /\ iret.res = "Ok" /\ iret.known
    /\ Len(incoming.pubs) = N_PUB_IN
    /\ \E i \in 1..Len(incoming.pubs) :
           incoming.pubs[i].id = iret.id /\ incoming.pubs[i].state = "Done"

(***************************************************************************)
(* Properties of the encoders and decoders (SpecCodec)                     *)
(***************************************************************************)
\* C24: remaining_length writes 1 byte for n <= 127, 2 for n <= 16383, 3 for
\* n <= 2097151 and 4 for n <= 268435455, and fails with MalformedPacket for
\* every larger n; calculate_remaining_length returns that number of bytes,
\* and fails, for the same n.
C24_RemainingLengthSize ==
    codec.op = "remaining_length" =>
        LET n == codec.n
            size == IF n <= 127 THEN 1 ELSE IF n <= 16383 THEN 2
                    ELSE IF n <= 2097151 THEN 3 ELSE 4
        IN  IF n <= 268435455
            THEN /\ codec.enc.res = "Ok" /\ Len(codec.enc.bytes) = size
                 /\ codec.calc = [res |-> "Ok", val |-> size]
                 /\ calculate_remaining_length(n).val = size
            ELSE /\ codec.enc.res = "MalformedPacket"
                 /\ calculate_remaining_length(n).res = "MalformedPacket"

\* C24 witness: the largest length was written, in 4 bytes
C24_Witness_LargestLength ==
    /\ codec.op = "remaining_length" /\ codec.n = 268435455
    /\ codec.enc.res = "Ok" /\ Len(codec.enc.bytes) = 4

\* C25: the two decoders of the remaining length agree: where
\* parser::read_remaining_len returns a length or MalformedRemainingLength
\* after some bytes, protocol::parse_remaining_len_byte has returned the same
\* after the same bytes.
C25_DecodersAgree ==
    (codec.op = "read_remaining_len"
        /\ codec.parser.res \in {"Ok", "MalformedRemainingLength"}) =>
            codec.protocol = codec.parser

\* C26: a legal CONNECT or PUBLISH that Packet::encode has written decodes,
\* and decodes to the packet it was: the PUBLISH with its flags, topic,
\* identifier and payload, the CONNECT with its clean_session, keep-alive and
\* client identifier.
C26_RoundTrip ==
    (codec.op = "encode" /\ codec.enc.res = "Ok"
        /\ codec.packet.type \in {"Connect", "Publish"}) =>
            /\ codec.dec.res = "Ok"
            /\ codec.dec.packet.type = codec.packet.type
            /\ codec.packet.type = "Publish" => codec.dec.packet = codec.packet
            /\ codec.packet.type = "Connect" =>
                   /\ codec.dec.packet.clean_session = codec.packet.clean_session
                   /\ codec.dec.packet.keep_alive = codec.packet.keep_alive
                   /\ codec.dec.packet.client_id = codec.packet.client_id

\* C27: the first byte of every packet the encoder writes passes the
\* decoder's validation of the fixed-header flags.
C27_EncodedHeaderAccepted ==
    (codec.op = "encode" /\ codec.enc.res = "Ok") => codec.first = "Ok"

(***************************************************************************)
(* Properties of the timers of the Client (SpecTimers)                     *)
(***************************************************************************)
\* What poll_timers appended to the outbox of client c
TimersQueued(c, r) ==
    SubSeq(Queued(r.c.outbox), Len(c.outbox.queue) + 1, Len(r.c.outbox.queue))

RingOrder(t) == [k \in 1..Len(t.pubs) |-> ((t.cursor + k - 1) % Len(t.pubs)) + 1]

\* C31: on every reachable tracker the cursor is a slot index below N_PUB_IN;
\* and when all N_PUB_IN slots are occupied, track of an identifier no slot
\* holds either returns Ok with exactly one slot changed, that slot having
\* been Done (the first Done slot in ring order from the cursor) and now
\* holding the identifier in AwaitPubRel, or, when no slot is Done, returns
\* VectorIsFull with every slot and the cursor as before.
C31_EvictsOnlyDone ==
    /\ incoming.cursor \in 0..(N_PUB_IN - 1)
    /\ Len(incoming.pubs) = N_PUB_IN =>
         \A id \in InIds :
           (\A i \in 1..N_PUB_IN : incoming.pubs[i].id # id) =>
             LET r == track(incoming, id)
                 done == {i \in 1..N_PUB_IN : incoming.pubs[i].state = "Done"}
                 changed == {i \in 1..N_PUB_IN : r.t.pubs[i] # incoming.pubs[i]}
                 ring == RingOrder(incoming)
             IN  /\ Len(r.t.pubs) = N_PUB_IN
                 /\ r.t.cursor \in 0..(N_PUB_IN - 1)
                 /\ IF done = {}
                    THEN r = [res |-> "VectorIsFull", t |-> incoming]
                    ELSE /\ r.res = "Ok"
                         /\ \E i \in done :
                              /\ changed = {i}
                              /\ r.t.pubs[i] = [id |-> id, state |-> "AwaitPubRel"]
                              /\ \E k \in 1..N_PUB_IN :
                                   /\ ring[k] = i
                                   /\ \A j \in 1..(k - 1) : ring[j] \notin done
                                   /\ r.t.cursor = i % N_PUB_IN

\* C31 witness: the tracker is full, track of a new identifier has just
\* evicted a Done slot (the cursor has moved), and a slot that was waiting
\* for its PUBREL is still waiting
C31_Witness_EvictedDoneSlot ==
    /\ iret.op = "track" /\ iret.res = "Ok" /\ ~iret.known
    /\ Len(incoming.pubs) = N_PUB_IN
    /\ incoming.cursor # 0
    /\ \E i, j \in 1..N_PUB_IN :
           /\ i # j
           /\ incoming.pubs[i] = [id |-> iret.id, state |-> "AwaitPubRel"]
           /\ incoming.pubs[j].state = "AwaitPubRel"

(***************************************************************************)
(* Completion in the incoming tracker (SpecIncoming)                       *)
(***************************************************************************)
\* C32: at every step of the tracker, mark_complete of an identifier a slot
\* holds returns Ok, leaves that slot Done and every other slot, the number
\* of slots and the cursor as they were; mark_complete of an identifier no
\* slot holds returns ProtocolViolation and changes nothing; and a slot that
\* was Done before the step and is AwaitPubRel after it holds a different
\* identifier than before.
C32_MarkCompleteOnlyForward ==
    [][ /\ \A id \in InIds :
             LET r == mark_complete(incoming, id)
                 held == {i \in 1..Len(incoming.pubs) : incoming.pubs[i].id = id}
             IN  IF held = {}
                 THEN r = [res |-> "ProtocolViolation", t |-> incoming]
                 ELSE /\ r.res = "Ok"
                      /\ r.t.cursor = incoming.cursor
                      /\ Len(r.t.pubs) = Len(incoming.pubs)
                      /\ \A i \in 1..Len(incoming.pubs) :
                           r.t.pubs[i] = IF i \in held
                                         THEN [id |-> id, state |-> "Done"]
                                         ELSE incoming.pubs[i]
        /\ \A i \in 1..Len(incoming.pubs) :
             (incoming.pubs[i].state = "Done" /\ incoming'.pubs[i].state = "AwaitPubRel")
                 => incoming'.pubs[i].id # incoming.pubs[i].id
      ]_vars

\* C32 witness: mark_complete has just returned Ok for an identifier whose
\* slot is now Done, while another slot is still waiting for its PUBREL
C32_Witness_OneSlotDone ==
    /\ iret.op = "mark_complete" /\ iret.res = "Ok"
    /\ \E i, j \in 1..Len(incoming.pubs) :
           /\ i # j
           /\ incoming.pubs[i] = [id |-> iret.id, state |-> "Done"]
           /\ incoming.pubs[j].state = "AwaitPubRel"

(***************************************************************************)
(* One ping per receive (SpecKeepAlive)                                    *)
(***************************************************************************)
\* C33: a should_ping that returned true has set ping_outstanding; on_send
\* changes only last_activity; while ping_outstanding is set should_ping
\* returns false whatever the time; hence should_ping returns true at most
\* once between two receives.  First three conjuncts: the keep-alive of
\* keep_alive.rs.  Last conjunct: the keep-alive of client.rs with a
\* non-zero interval, asked again after its should_ping returned true and
\* nothing was received, at the same or a later time.
C33_PingAtMostOncePerReceive ==
    /\ (kret.op = "should_ping" /\ kret.val) => ka.ping_outstanding
    /\ on_send(ka, now) = [ka EXCEPT !.last_activity = now]
    /\ ka.ping_outstanding => ~should_ping(ka, now).val
    /\ (kret.op = "client_should_ping" /\ kret.val /\ cka.keep_alive.integer # 0)
          => ~client_should_ping(cka, now).val

(***************************************************************************)
(* A keep-alive interval of zero (SpecKeepAlive)                           *)
(***************************************************************************)
\* C34: with a keep-alive interval of 0 the mechanism is disabled: at every
\* time and after every sequence of calls should_ping and timed_out return
\* false and ping_outstanding is not set (first conjunct, keep_alive.rs;
\* second conjunct, the answers of the keep-alive of client.rs), and
\* poll_timers of a client holding that keep-alive enqueues nothing (third
\* conjunct).
C34_ZeroIntervalDisables ==
    /\ ka.keep_alive.integer = 0 =>
          /\ ~ka.enabled /\ ~ka.ping_outstanding
          /\ ~should_ping(ka, now).val /\ ~timed_out(ka, now).val
    /\ (cka.keep_alive.integer = 0
            /\ kret.op \in {"client_should_ping", "client_timed_out"}) => ~kret.val
    /\ cka.keep_alive.integer = 0 =>
          LET c == [Client_try_new(0, cka.keep_alive) EXCEPT !.keep_alive = cka]
          IN  poll_timers(c, now, TRUE).c.outbox.queue = <<>>

(***************************************************************************)
(* Queued bytes across compaction (SpecOutbox)                             *)
(***************************************************************************)
\* C35: whatever enqueues and flushes came before, the bytes each queued
\* range selects from the buffer, which are what flush_one will write for
\* it, are the bytes that were encoded for that packet when it was
\* enqueued: the i-th queued range selects the encoding of the i-th of the
\* last Len(queue) packets enqueued.
C35_QueuedBytesIntact ==
    /\ Len(outbox.queue) <= Len(wire.enq)
    /\ \A i \in 1..Len(outbox.queue) :
           Queued(outbox)[i] = wire.enq[Len(wire.enq) - Len(outbox.queue) + i]

(***************************************************************************)
(* A failing enqueue (SpecOutbox)                                          *)
(***************************************************************************)
\* C36: on every reachable outbox, an enqueue that fails with BufferTooSmall
\* or VectorIsFull leaves the queue of ranges as it was, leaves the write
\* cursor as it was (at 0 when the queue is empty, where enqueue starts
\* from), and leaves the bytes every queued range selects as they were.
C36_FailedEnqueueChangesNothing ==
    \A packet \in OutboxPackets :
        LET r == enqueue(outbox, packet)
        IN  r.res \in {"BufferTooSmall", "VectorIsFull"} =>
                /\ r.o.queue = outbox.queue
                /\ r.o.cursor = (IF outbox.queue = <<>> THEN 0 ELSE outbox.cursor)
                /\ Queued(r.o) = Queued(outbox)

(***************************************************************************)
(* The keep-alive and the session on the outstanding ping (SpecTimers)     *)
(***************************************************************************)
\* C37: the keep-alive and the session agree on whether a ping is
\* outstanding: in every reachable client state in which the keep-alive's
\* should_ping answers true, so that poll_timers schedules a ping, the
\* session has no ping outstanding; and no poll_timers or poll returns
\* PingOutstanding.
C37_PingDueOnlyWhenNoneOutstanding ==
    /\ client_should_ping(cka, now).val => ~sess.ping_outstanding
    /\ cret.res # "PingOutstanding"

(***************************************************************************)
(* The pool's stores and the subscription records (SpecSession)            *)
(***************************************************************************)
\* C38: in every reachable session state the identifiers in the pool's
\* subscribe store are exactly those of the subscriptions in state
\* Pending(id), the identifiers in its unsubscribe store are exactly those
\* of the subscriptions in state UnsubPending(id), and no two subscriptions
\* are pending on the same identifier.
C38_StoresMatchSubscriptions ==
    LET subs == sess.subscriptions
        pending == {i \in 1..Len(subs) : subs[i].state.t = "Pending"}
        unsubPending == {i \in 1..Len(subs) : subs[i].state.t = "UnsubPending"}
    IN  /\ SubIds(sess.pool) = {subs[i].state.id : i \in pending}
        /\ UnsubIds(sess.pool) = {subs[i].state.id : i \in unsubPending}
        /\ \A i, j \in pending \cup unsubPending :
               subs[i].state.id = subs[j].state.id => i = j

C40_NoPingBeforeConnected ==
    sess.state \in {"Disconnected", "Connecting"} =>
        LET after == poll_timers(ThisClient, now, TRUE).c.outbox
        IN  \A i \in (Len(outbox.queue) + 1)..Len(after.queue) :
                Queued(after)[i] # <<194, 0>>

====
